---- MODULE Spec2Model ----
(***************************************************************************)
(* The reconciliation engine of helper/envconfig: operationWrapper with    *)
(* its two existence caches, makesureLogstoreExist / makesureProjectExist  *)
(* / makesureMachineGroupExist and updateConfigInner, run against a model  *)
(* of the remote control plane that keeps projects, logstores, indexes,    *)
(* one collection config, machine groups and the config's bindings.        *)
(*                                                                         *)
(* Every remote call of the code is one action.  A call either fails with  *)
(* a transient error (at most MaxFaults times in a behaviour) or answers   *)
(* from the remote state.  A retry loop `for i := 0; i < N; i++` is the    *)
(* pair (call action, after-loop action): the call action is enabled while *)
(* i < maxRetry and the loop has not hit `break`, the after-loop action    *)
(* when it has ended either way.                                           *)
(***************************************************************************)
EXTENDS Integers, Sequences, FiniteSets, TLC

\* ------------------------------------------------------------------ bounds
MaxRetryTimes == 2      \* largest value of flags.LogOperationMaxRetryTimes tried
MaxFaults == 2          \* transient remote failures in one behaviour
CacheExpireSec == 2     \* the value of flags.LogResourceCacheExpireSec
MaxTime == CacheExpireSec   \* the clock runs from 0 until an entry of time 0 expires
MaxPasses == 2          \* operations (updateConfig, deleteConfig) in one behaviour

\* ------------------------------------------------------- program constants
DefaultTTL == 180
DefaultShardCount == 2
MaxShardCount == 10
AuditLogstoreLen == 39

DefaultProject == "k8s-log"              \* operationWrapper.project
OtherProject == "other-proj"
DefaultLogMachineGroup == "k8s-group"    \* flags.DefaultLogMachineGroup
ConfigName == "cfg"
InputTypeFile == "file"                  \* aliyunlog.InputTypeFile
InputTypePlugin == "plugin"

AppLogstore == "app-log"
AuditLogstore == "audit-cfc281c9c4ca548638a1aaa765d8f220d"   \* prefix, 39 long
ShortAuditLogstore == "audit-short"                          \* prefix only
LongPlainLogstore == "stdout-cfc281c9c4ca548638a1aaa765d8f220" \* 39 long only

VARIABLES
  maxRetry,          \* flags.LogOperationMaxRetryTimes
  now,               \* the wall clock, in seconds
  logstoreCacheMap,  \* operationWrapper.logstoreCacheMap: key -> time
  configCacheMap,    \* operationWrapper.configCacheMap: key -> time
  config,            \* the AliyunLogConfigSpec the caller reconciles
  rProjects,         \* remote: the projects that exist
  rLogstores,        \* remote: the logstores that exist, as project@@logstore
  rIndexes,          \* remote: the logstores that have an index
  rConfig,           \* remote: the collection config ConfigName, or NoConfig
  rGroups,           \* remote: the machine groups that exist
  rApplied,          \* remote: the machine groups the config is applied to
  pc,                \* the position of the running operation, "idle" if none
  i,                 \* the loop variable of the retry loop at pc
  brk,               \* the retry loop at pc has executed break
  ok,                \* the local ok of the running function
  err,               \* the local err of the running function
  serverConfig,      \* updateConfigInner's serverConfig
  mgOk,              \* makesureMachineGroupExist's ok
  mgErr,             \* makesureMachineGroupExist's err
  cacheHit,          \* what logstoreCacheExists answered in this pass
  calls,             \* remote calls of the running/last pass, per operation
  fails,             \* those of them that returned an error
  ret,               \* what each step of the running/last pass returned
  createArgs,        \* the (ttl, shardCount) given to CreateLogStore
  productArgs,       \* the (product, lang) given to CreateProductLogstore
  sent,              \* the config object of the last CreateConfig/UpdateConfig
  lookup,            \* the answer of the last cache lookup made by a caller
  confirmedAt,       \* when makesureLogstoreExist last confirmed the logstore
  startedAt,         \* when the running/last pass started
  warm,              \* the logstore was confirmed less than the TTL before that
  fetched,           \* the config GetConfig returned in this pass, untouched
  prev,              \* what the pass before the running/last one returned
  passes,            \* operations started so far
  faults,            \* transient failures so far
  lock,              \* operationWrapper.lock: its writer and its readers
  thr                \* the goroutines that share the wrapper, each one's position

remoteVars == <<rProjects, rLogstores, rIndexes, rConfig, rGroups, rApplied>>
cacheVars == <<logstoreCacheMap, configCacheMap>>
envVars == <<maxRetry, now, config>>
localVars == <<pc, i, brk, ok, err, serverConfig, mgOk, mgErr>>
obsVars == <<cacheHit, calls, fails, ret, createArgs, productArgs, sent, lookup,
             confirmedAt, startedAt, warm, fetched, prev, passes, faults>>
concVars == <<lock, thr>>
vars == <<remoteVars, cacheVars, envVars, localVars, obsVars, concVars>>

\* ------------------------------------------------------------ plain values
Nil == "nil"                   \* the nil error
NoConfig == [Name |-> ""]      \* a nil *aliyunlog.LogConfig
None == <<>>                   \* a nil *int32
NoArgs == [set |-> FALSE]      \* the arguments of a call that was not made

Ops == {"CheckProjectExist", "CreateProject", "CheckLogstoreExist", "CreateLogStore",
        "CreateIndex", "CreateProductLogstore", "GetConfig", "CreateConfig",
        "UpdateConfig", "CheckMachineGroupExist", "CreateMachineGroup",
        "GetAppliedMachineGroups", "ApplyConfigToMachineGroup", "DeleteConfig"}
Steps == {"project", "logstore", "config", "machineGroup", "bind", "pass", "delete"}

Inc(f, op) == [f EXCEPT ![op] = @ + 1]
Key(project, name) == project \o "@@" \o name

\* input-detail values, as they come out of a JSON document
Null == [t |-> "null"]
Str(s) == [t |-> "str", s |-> s]
Map(m) == [t |-> "map", m |-> m]
Opaque == [t |-> "opaque"]     \* an InputDetail that is no JSON object
Get(d, k) == IF k \in DOMAIN d THEN d[k] ELSE Null
Put(d, k, v) == [x \in DOMAIN d \cup {k} |-> IF x = k THEN v ELSE d[x]]

\* --------------------------------------------------------- pkg/util helpers
InterfaceToString(val) ==
  IF val = Null THEN ""
  ELSE IF val.t = "str" THEN val.s ELSE ""

Quote(s) == "\"" \o s \o "\""
MapKeys == <<"app", "tier">>   \* the keys of filter maps, in sorted order

RECURSIVE MarshalMap(_, _, _)
MarshalMap(m, ks, first) ==
  IF ks = <<>> THEN ""
  ELSE IF Head(ks) \in DOMAIN m
    THEN (IF first THEN "" ELSE ",") \o Quote(Head(ks)) \o ":" \o Quote(m[Head(ks)])
           \o MarshalMap(m, Tail(ks), FALSE)
    ELSE MarshalMap(m, Tail(ks), first)

InterfaceToJSONString(val) ==
  CASE val.t = "null" -> "null"
    [] val.t = "str" -> Quote(val.s)
    [] val.t = "map" -> "{" \o MarshalMap(val.m, MapKeys, TRUE) \o "}"
    [] OTHER -> "\"opaque\""

\* util.DeepCopy: marshal to JSON and unmarshal again; on these values the
\* result has the same keys and the same JSON text per key.
DeepCopy(d) == [k \in DOMAIN d |-> d[k]]

\* ------------------------------------------------------- the desired spec
Project(c) == IF Len(c.Project) # 0 THEN c.Project ELSE DefaultProject
IntOf(p) == IF p = None THEN 0 ELSE p[1]
InputTypeOf(c) == IF Len(c.InputType) = 0 THEN InputTypeFile ELSE c.InputType
\* variant: the default group whatever the spec lists
MachineGroupOfDefault(c) == DefaultLogMachineGroup
MachineGroupOf(c) ==
  IF Len(c.MachineGroups) > 0 THEN c.MachineGroups[1] ELSE DefaultLogMachineGroup

addNecessaryInputConfigField(inputConfigDetail) ==
  LET copy == DeepCopy(inputConfigDetail)
  IN IF "topicFormat" \in DOMAIN copy THEN copy ELSE Put(copy, "topicFormat", Str("none"))

aliyunLogConfig(c) ==
  [Name |-> ConfigName,
   InputType |-> InputTypeOf(c),
   InputDetail |-> addNecessaryInputConfigField(c.InputDetail),
   OutputProject |-> Project(c),
   OutputLogstore |-> c.Logstore]

\* ------------------------------------------------------------- the caches
\* variant: an entry whose age equals the TTL still counts as valid
CacheValidInclusive(lastUpdateTime) == now - lastUpdateTime <= CacheExpireSec
CacheValid(lastUpdateTime) == now - lastUpdateTime < CacheExpireSec

logstoreCacheExists(project, logstore) ==
  IF Key(project, logstore) \in DOMAIN logstoreCacheMap
    THEN IF CacheValid(logstoreCacheMap[Key(project, logstore)]) THEN TRUE ELSE FALSE
    ELSE FALSE

configCacheExists(project, cfg) ==
  IF Key(project, cfg) \in DOMAIN configCacheMap
    THEN IF CacheValid(configCacheMap[Key(project, cfg)]) THEN TRUE ELSE FALSE
    ELSE FALSE

\* variant: the entry is recorded under the logstore name alone
addLogstoreCacheByName(m, project, logstore) == Put(m, logstore, now)
addLogstoreCache(m, project, logstore) == Put(m, Key(project, logstore), now)
\* variant: the entry is recorded under the config name alone
addConfigCacheByName(m, project, cfg) == Put(m, cfg, now)
addConfigCache(m, project, cfg) == Put(m, Key(project, cfg), now)
removeConfigCache(m, project, cfg) ==
  [k \in DOMAIN m \ {Key(project, cfg)} |-> m[k]]

\* ------------------------------------------------- makesureLogstoreExist
HasPrefix(s, prefix) == Len(s) >= Len(prefix) /\ SubSeq(s, 1, Len(prefix)) = prefix
\* variant: the prefix alone decides
IsAuditLogstoreByPrefix(logstore) == HasPrefix(logstore, "audit-")
IsAuditLogstore(logstore) ==
  HasPrefix(logstore, "audit-") /\ Len(logstore) = AuditLogstoreLen

TTLOf(lifeCycle) == IF lifeCycle > 0 THEN lifeCycle ELSE DefaultTTL
\* variant: no upper limit on the shard count
ShardCountOfUnclamped(shardCount) ==
  IF shardCount <= 0 THEN DefaultShardCount ELSE shardCount
ShardCountOf(shardCount) ==
  LET s == IF shardCount <= 0 THEN DefaultShardCount ELSE shardCount
  IN IF s > MaxShardCount THEN MaxShardCount ELSE s

\* ---------------------------------------------------------- initial states
Absent == [t |-> "absent"]     \* marks a key left out of an input detail
MkDetail(path, pattern, env, label) ==
  LET kv == [logPath |-> path, filePattern |-> pattern,
             dockerIncludeEnv |-> env, dockerIncludeLabel |-> label]
  IN [k \in {x \in DOMAIN kv : kv[x] # Absent} |-> kv[k]]

Env1 == Map([app |-> "web"])
Label1 == Map([tier |-> "front", app |-> "web"])
BaseDetail == MkDetail(Str("/b"), Str("*.log"), Absent, Absent)

BaseConfig ==
  [Project |-> "", Logstore |-> AppLogstore, ShardCount |-> None, LifeCycle |-> None,
   ProductCode |-> "", ProductLang |-> "", InputType |-> InputTypeFile,
   InputDetail |-> BaseDetail, MachineGroups |-> <<>>, SimpleConfig |-> TRUE]

RemoteConfigOf(type, detail) ==
  [Name |-> ConfigName, InputType |-> type, InputDetail |-> detail,
   OutputProject |-> DefaultProject, OutputLogstore |-> AppLogstore]

\* what the remote holds once a file config was created from a detail
RemoteDetail(path, env, label) ==
  Put(MkDetail(path, Str("*.log"), env, label), "topicFormat", Str("none"))

Scenario(c, hasProject, hasLogstore, rc, groups, applied) ==
  [config |-> c, hasProject |-> hasProject, hasLogstore |-> hasLogstore,
   rConfig |-> rc, rGroups |-> groups, rApplied |-> applied]

\* the generic provisioning inputs: project and logstore name, on a remote that
\* has or lacks the project and the logstore
GenericScenarios ==
  { Scenario([BaseConfig EXCEPT !.Project = p, !.Logstore = l],
             has[1], has[2], NoConfig, {DefaultLogMachineGroup}, {}) :
      p \in {"", OtherProject},
      l \in {AppLogstore, ShortAuditLogstore, LongPlainLogstore},
      has \in {<<FALSE, FALSE>>, <<TRUE, FALSE>>, <<TRUE, TRUE>>} }

\* the managed-product inputs: a declared product code, or an audit logstore
ProductScenarios ==
  { Scenario([BaseConfig EXCEPT !.Project = p, !.Logstore = l,
                                !.ProductCode = pr[1], !.ProductLang = pr[2]],
             FALSE, FALSE, NoConfig, {DefaultLogMachineGroup}, {}) :
      p \in {"", OtherProject}, l \in {AppLogstore, AuditLogstore},
      pr \in {<<"", "">>, <<"k8s-ingress", "">>, <<"k8s-ingress", "en">>} }
    \ { Scenario(BaseConfig, FALSE, FALSE, NoConfig, {DefaultLogMachineGroup}, {}) }

ProvisionScenarios == GenericScenarios \cup ProductScenarios

\* the shard counts and retentions, on a remote that lacks the logstore
ClampScenarios ==
  { Scenario([BaseConfig EXCEPT !.ShardCount = sc, !.LifeCycle = lc],
             TRUE, FALSE, NoConfig, {DefaultLogMachineGroup}, {}) :
      sc \in {None, <<-5>>, <<0>>, <<1>>, <<10>>, <<15>>}, lc \in {None, <<7>>} }
  \cup
  { Scenario([BaseConfig EXCEPT !.LifeCycle = lc],
             TRUE, FALSE, NoConfig, {DefaultLogMachineGroup}, {}) :
      lc \in {<<-1>>, <<0>>} }

\* the file settings of a simple-mode file config against a remote file config:
\* every desired path and pattern, and every mix of present and absent filters
PatchScenarios ==
  { Scenario([BaseConfig EXCEPT !.InputDetail = MkDetail(lp, lf, Absent, Absent)],
             TRUE, TRUE,
             RemoteConfigOf(InputTypeFile, RemoteDetail(Str("/a"), Absent, Absent)),
             {DefaultLogMachineGroup}, {DefaultLogMachineGroup}) :
      lp \in {Absent, Str("/a"), Str("/b")}, lf \in {Absent, Str("*.log")} }
  \cup
  { Scenario([BaseConfig EXCEPT !.InputDetail = MkDetail(lp, Str("*.log"), le, ll)],
             TRUE, TRUE, RemoteConfigOf(InputTypeFile, RemoteDetail(Str("/a"), re, rl)),
             {DefaultLogMachineGroup}, {DefaultLogMachineGroup}) :
      lp \in {Str("/b")},
      le \in {Absent, Env1}, ll \in {Absent, Label1},
      re \in {Absent, Env1}, rl \in {Absent, Label1} }

\* input type and mode against every kind of remote config
TypeScenarios ==
  { Scenario([BaseConfig EXCEPT !.InputType = t, !.SimpleConfig = sm],
             TRUE, TRUE, rc, {DefaultLogMachineGroup},
             IF rc = NoConfig THEN {} ELSE {DefaultLogMachineGroup}) :
      t \in {"", InputTypeFile, InputTypePlugin}, sm \in {TRUE},
      rc \in {NoConfig,
              RemoteConfigOf(InputTypeFile, RemoteDetail(Str("/a"), Absent, Absent)),
              RemoteConfigOf(InputTypeFile, RemoteDetail(Str("/b"), Absent, Absent)),
              RemoteConfigOf(InputTypePlugin, RemoteDetail(Str("/b"), Absent, Absent)),
              RemoteConfigOf(InputTypeFile, Opaque),
              RemoteConfigOf(InputTypePlugin, Opaque)} }

\* a spec that is not in simple mode
FullScenarios ==
  { Scenario([BaseConfig EXCEPT !.InputType = t, !.SimpleConfig = FALSE],
             TRUE, TRUE, rc, {DefaultLogMachineGroup},
             IF rc = NoConfig THEN {} ELSE {DefaultLogMachineGroup}) :
      t \in {"", InputTypeFile, InputTypePlugin},
      rc \in {NoConfig,
              RemoteConfigOf(InputTypeFile, RemoteDetail(Str("/a"), Absent, Absent)),
              RemoteConfigOf(InputTypePlugin, Opaque)} }

\* the machine groups of the spec against the groups and bindings of the remote
GroupScenarios ==
  { Scenario([BaseConfig EXCEPT !.MachineGroups = mg],
             TRUE, TRUE, rc, ga[1], IF rc = NoConfig THEN {} ELSE ga[2]) :
      mg \in {<<>>, <<"g1", "g2">>},
      rc \in {NoConfig,
              RemoteConfigOf(InputTypeFile, RemoteDetail(Str("/b"), Absent, Absent))},
      ga \in {<<{DefaultLogMachineGroup}, {}>>,
              <<{DefaultLogMachineGroup}, {DefaultLogMachineGroup}>>,
              <<{DefaultLogMachineGroup, "g1"}, {"g1"}>>} }

\* a spec that names the wrapper's default project itself
DefaultNamedScenarios ==
  { Scenario([BaseConfig EXCEPT !.Project = DefaultProject],
             TRUE, FALSE, NoConfig, {DefaultLogMachineGroup}, {}) }

Scenarios ==
  ProvisionScenarios \cup ClampScenarios \cup PatchScenarios \cup TypeScenarios
    \cup FullScenarios \cup GroupScenarios \cup DefaultNamedScenarios

\* the goroutines that call into one wrapper at the same time
Threads == {"t1", "t2"}
NoThread == "none"
Unlocked == [writer |-> NoThread, readers |-> {}]
IdleThread ==
  [pc |-> "idle", fn |-> "none", back |-> "idle", i |-> 0, brk |-> FALSE, ok |-> FALSE,
   err |-> Nil, found |-> FALSE, creates |-> 0, res |-> "none"]

ZeroCalls == [op \in Ops |-> 0]
NoReturns == [s \in Steps |-> "none"]

Init ==
  /\ maxRetry \in 0..MaxRetryTimes
  /\ now = 0
  /\ logstoreCacheMap = <<>>
  /\ configCacheMap = <<>>
  /\ \E sc \in Scenarios :
       /\ config = sc.config
       /\ rProjects = {DefaultProject} \cup
            (IF sc.hasProject \/ sc.hasLogstore THEN {Project(sc.config)} ELSE {})
       /\ rLogstores = IF sc.hasLogstore
                         THEN {Key(Project(sc.config), sc.config.Logstore)} ELSE {}
       /\ rConfig = sc.rConfig
       /\ rGroups = sc.rGroups
       /\ rApplied = sc.rApplied \cap sc.rGroups
  /\ rIndexes = rLogstores
  /\ pc = "idle" /\ i = 0 /\ brk = FALSE /\ ok = FALSE /\ err = Nil
  /\ serverConfig = NoConfig /\ mgOk = FALSE /\ mgErr = Nil
  /\ cacheHit = FALSE /\ calls = ZeroCalls /\ fails = ZeroCalls /\ ret = NoReturns
  /\ createArgs = NoArgs /\ productArgs = NoArgs /\ sent = NoConfig
  /\ lookup = <<"none", FALSE>> /\ confirmedAt = -1 /\ startedAt = 0
  /\ warm = FALSE /\ fetched = NoConfig
  /\ prev = "none"
  /\ passes = 0 /\ faults = 0
  /\ lock = Unlocked
  /\ thr = [t \in Threads |-> IdleThread]

\* ------------------------------------------------------- the remote's faults
FaultChoices == IF faults < MaxFaults THEN {FALSE, TRUE} ELSE {FALSE}
Spend(fault) == faults' = faults + (IF fault THEN 1 ELSE 0)

\* variant: a loop goes on until a call succeeds
LoopCallUnbounded(at) == pc = at /\ ~brk
\* variant: one more attempt than the flag allows
LoopCallOneMore(at) == pc = at /\ ~brk /\ i <= maxRetry
LoopCall(at) == pc = at /\ ~brk /\ i < maxRetry
LoopDone(at) == pc = at /\ (brk \/ i >= maxRetry)
Enter(at) == pc' = at /\ i' = 0 /\ brk' = FALSE

\* --------------------------------------------- updateConfigInner, first part
\* What makesureLogstoreExist does before its first remote call.
\* variant: the product decision is taken before the cache is consulted
LogstoreEntryProductFirst(project, logstore, product) ==
  IF Len(product) > 0 THEN "CreateProductLogstore"
  ELSE IF IsAuditLogstore(logstore) THEN "CreateProductLogstore"
  ELSE IF logstoreCacheExists(project, logstore) THEN "GetConfig"
  ELSE IF project # DefaultProject THEN "CheckProjectExist"
  ELSE "CheckLogstoreExist"
LogstoreEntry(project, logstore, product) ==
  IF logstoreCacheExists(project, logstore) THEN "GetConfig"
  ELSE IF Len(product) > 0 THEN "CreateProductLogstore"
  ELSE IF IsAuditLogstore(logstore) THEN "CreateProductLogstore"
  ELSE IF project # DefaultProject THEN "CheckProjectExist"
  ELSE "CheckLogstoreExist"

\* updateConfig(config): the pass starts and runs up to its first remote call.
updateConfigInner ==
  /\ pc = "idle" /\ passes < MaxPasses
  /\ passes' = passes + 1
  /\ prev' = IF ret["pass"] \in {"none", Nil} THEN ret["pass"] ELSE "err"
  /\ startedAt' = now
  /\ warm' = (confirmedAt >= 0 /\ now - confirmedAt < CacheExpireSec)
  /\ fetched' = NoConfig
  /\ cacheHit' = logstoreCacheExists(Project(config), config.Logstore)
  /\ pc' = LogstoreEntry(Project(config), config.Logstore, config.ProductCode)
  /\ ret' = [NoReturns EXCEPT !["logstore"] = IF pc' = "GetConfig" THEN Nil ELSE "none"]
  /\ i' = 0 /\ brk' = FALSE /\ ok' = FALSE /\ err' = Nil /\ serverConfig' = NoConfig
  /\ mgOk' = FALSE /\ mgErr' = Nil
  /\ calls' = ZeroCalls /\ fails' = ZeroCalls
  /\ createArgs' = NoArgs /\ productArgs' = NoArgs /\ sent' = NoConfig
  /\ lookup' = <<"none", FALSE>>
  /\ UNCHANGED concVars
  /\ UNCHANGED <<remoteVars, cacheVars, envVars, confirmedAt, faults>>

\* The product and language createProductLogstore is called with.
ProductOf(c) ==
  IF Len(c.ProductCode) > 0
    THEN <<c.ProductCode, IF Len(c.ProductLang) = 0 THEN "cn" ELSE c.ProductLang>>
    ELSE <<"k8s-audit", "cn">>

\* The remote after the product creation API succeeded.
ProductLogstoreCreated(project, logstore) ==
  /\ rProjects' = rProjects \cup {project}
  /\ rLogstores' = rLogstores \cup {Key(project, logstore)}
  /\ rIndexes' = rIndexes \cup {Key(project, logstore)}

createProductLogstore ==
  /\ pc = "CreateProductLogstore"
  /\ calls' = Inc(calls, "CreateProductLogstore")
  /\ productArgs' = [set |-> TRUE, product |-> ProductOf(config)[1],
                     lang |-> ProductOf(config)[2]]
  /\ \E fault \in FaultChoices :
       /\ Spend(fault)
       /\ IF fault
            THEN /\ fails' = Inc(fails, "CreateProductLogstore")
                 /\ err' = "ProductError"
                 /\ ret' = [ret EXCEPT !["logstore"] = "ProductError",
                                       !["pass"] = "ProductError"]
                 /\ pc' = "idle"
                 /\ UNCHANGED <<remoteVars, logstoreCacheMap, confirmedAt>>
            ELSE /\ ProductLogstoreCreated(Project(config), config.Logstore)
                 /\ logstoreCacheMap' =
                      addLogstoreCache(logstoreCacheMap, Project(config), config.Logstore)
                 /\ confirmedAt' = now
                 /\ ret' = [ret EXCEPT !["logstore"] = Nil]
                 /\ pc' = "GetConfig"
                 /\ UNCHANGED <<fails, err, rConfig, rGroups, rApplied>>
  /\ i' = 0 /\ brk' = FALSE
  /\ UNCHANGED concVars
  /\ UNCHANGED <<configCacheMap, envVars, ok, serverConfig, mgOk, mgErr, cacheHit, createArgs,
                 sent, lookup, startedAt, warm, fetched, prev, passes>>

\* ----------------------------------------------------- makesureProjectExist
CheckProjectExist ==
  /\ LoopCall("CheckProjectExist")
  /\ calls' = Inc(calls, "CheckProjectExist")
  /\ \E fault \in FaultChoices :
       /\ Spend(fault)
       /\ IF fault
            THEN /\ ok' = FALSE /\ err' = "Transient" /\ i' = i + 1 /\ brk' = FALSE
                 /\ fails' = Inc(fails, "CheckProjectExist")
            ELSE /\ ok' = (Project(config) \in rProjects) /\ err' = Nil
                 /\ i' = i /\ brk' = TRUE /\ fails' = fails
  /\ UNCHANGED concVars
  /\ UNCHANGED <<remoteVars, cacheVars, envVars, pc, serverConfig, mgOk, mgErr, cacheHit, ret,
                 createArgs, productArgs, sent, lookup, confirmedAt, startedAt, warm, fetched, prev,
                 passes>>

\* after the check loop: return nil when the project exists, else go and create it
\* variant: the project is created whatever the check answered
ProjectCheckedAlwaysCreating ==
  /\ LoopDone("CheckProjectExist")
  /\ IF FALSE
       THEN /\ ret' = [ret EXCEPT !["project"] = Nil]
            /\ Enter("CheckLogstoreExist")
            /\ ok' = FALSE /\ err' = Nil
       ELSE /\ Enter("CreateProject")
            /\ UNCHANGED <<ret, ok, err>>
  /\ UNCHANGED concVars
  /\ UNCHANGED <<remoteVars, cacheVars, envVars, serverConfig, mgOk, mgErr, cacheHit, calls, fails,
                 createArgs, productArgs, sent, lookup, confirmedAt, startedAt, warm, fetched, prev,
                 passes, faults>>
ProjectChecked ==
  /\ LoopDone("CheckProjectExist")
  /\ IF ok
       THEN /\ ret' = [ret EXCEPT !["project"] = Nil]
            /\ Enter("CheckLogstoreExist")
            /\ ok' = FALSE /\ err' = Nil
       ELSE /\ Enter("CreateProject")
            /\ UNCHANGED <<ret, ok, err>>
  /\ UNCHANGED concVars
  /\ UNCHANGED <<remoteVars, cacheVars, envVars, serverConfig, mgOk, mgErr, cacheHit, calls, fails,
                 createArgs, productArgs, sent, lookup, confirmedAt, startedAt, warm, fetched, prev,
                 passes, faults>>

CreateProject ==
  /\ LoopCall("CreateProject")
  /\ calls' = Inc(calls, "CreateProject")
  /\ \E fault \in FaultChoices :
       /\ Spend(fault)
       /\ IF fault \/ Project(config) \in rProjects
            THEN /\ err' = IF fault THEN "Transient" ELSE "ProjectAlreadyExist"
                 /\ i' = i + 1 /\ brk' = FALSE
                 /\ fails' = Inc(fails, "CreateProject")
                 /\ rProjects' = rProjects
            ELSE /\ err' = Nil /\ i' = i /\ brk' = TRUE /\ fails' = fails
                 /\ rProjects' = rProjects \cup {Project(config)}
  /\ UNCHANGED concVars
  /\ UNCHANGED <<rLogstores, rIndexes, rConfig, rGroups, rApplied, cacheVars, envVars,
                 pc, ok, serverConfig, mgOk, mgErr, cacheHit, ret, createArgs, productArgs, sent,
                 lookup, confirmedAt, startedAt, warm, fetched, prev, passes>>

\* makesureProjectExist returns err; on an error makesureLogstoreExist and the
\* pass return it too
ProjectCreated ==
  /\ LoopDone("CreateProject")
  /\ IF err # Nil
       THEN /\ ret' = [ret EXCEPT !["project"] = err, !["logstore"] = err,
                                  !["pass"] = err]
            /\ pc' = "idle" /\ i' = 0 /\ brk' = FALSE
            /\ UNCHANGED <<ok, err>>
       ELSE /\ ret' = [ret EXCEPT !["project"] = Nil]
            /\ Enter("CheckLogstoreExist")
            /\ ok' = FALSE /\ err' = Nil
  /\ UNCHANGED concVars
  /\ UNCHANGED <<remoteVars, cacheVars, envVars, serverConfig, mgOk, mgErr, cacheHit, calls, fails,
                 createArgs, productArgs, sent, lookup, confirmedAt, startedAt, warm, fetched, prev,
                 passes, faults>>

\* ---------------------------------------- makesureLogstoreExist, generic path
CheckLogstoreExist ==
  /\ LoopCall("CheckLogstoreExist")
  /\ calls' = Inc(calls, "CheckLogstoreExist")
  /\ \E fault \in FaultChoices :
       /\ Spend(fault)
       /\ IF fault \/ Project(config) \notin rProjects
            THEN /\ ok' = FALSE
                 /\ err' = IF fault THEN "Transient" ELSE "ProjectNotExist"
                 /\ i' = i + 1 /\ brk' = FALSE
                 /\ fails' = Inc(fails, "CheckLogstoreExist")
            ELSE /\ ok' = (Key(Project(config), config.Logstore) \in rLogstores)
                 /\ err' = Nil /\ i' = i /\ brk' = TRUE /\ fails' = fails
  /\ UNCHANGED concVars
  /\ UNCHANGED <<remoteVars, cacheVars, envVars, pc, serverConfig, mgOk, mgErr, cacheHit, ret,
                 createArgs, productArgs, sent, lookup, confirmedAt, startedAt, warm, fetched, prev,
                 passes>>

\* after the check loop: record and return when the logstore exists, else
\* work out ttl and shardCount and go and create it
\* variant: a confirmed logstore is not recorded in the cache
LogstoreCheckedNotRecording ==
  /\ LoopDone("CheckLogstoreExist")
  /\ IF ok
       THEN /\ logstoreCacheMap' = logstoreCacheMap
            /\ confirmedAt' = now
            /\ ret' = [ret EXCEPT !["logstore"] = Nil]
            /\ Enter("GetConfig")
            /\ ok' = FALSE /\ err' = Nil
       ELSE /\ Enter("CreateLogStore")
            /\ UNCHANGED <<logstoreCacheMap, confirmedAt, ret, ok, err>>
  /\ UNCHANGED concVars
  /\ UNCHANGED <<remoteVars, configCacheMap, envVars, serverConfig, mgOk, mgErr, cacheHit, calls,
                 fails, createArgs, productArgs, sent, lookup, startedAt, warm, fetched, prev,
                 passes, faults>>
LogstoreChecked ==
  /\ LoopDone("CheckLogstoreExist")
  /\ IF ok
       THEN /\ logstoreCacheMap' =
                 addLogstoreCache(logstoreCacheMap, Project(config), config.Logstore)
            /\ confirmedAt' = now
            /\ ret' = [ret EXCEPT !["logstore"] = Nil]
            /\ Enter("GetConfig")
            /\ ok' = FALSE /\ err' = Nil
       ELSE /\ Enter("CreateLogStore")
            /\ UNCHANGED <<logstoreCacheMap, confirmedAt, ret, ok, err>>
  /\ UNCHANGED concVars
  /\ UNCHANGED <<remoteVars, configCacheMap, envVars, serverConfig, mgOk, mgErr, cacheHit, calls,
                 fails, createArgs, productArgs, sent, lookup, startedAt, warm, fetched, prev,
                 passes, faults>>

CreateLogStore ==
  /\ LoopCall("CreateLogStore")
  /\ calls' = Inc(calls, "CreateLogStore")
  /\ createArgs' = [set |-> TRUE, ttl |-> TTLOf(IntOf(config.LifeCycle)),
                    shardCount |-> ShardCountOf(IntOf(config.ShardCount))]
  /\ \E fault \in FaultChoices :
       /\ Spend(fault)
       /\ IF fault \/ Project(config) \notin rProjects
             \/ Key(Project(config), config.Logstore) \in rLogstores
            THEN /\ err' = IF fault THEN "Transient"
                           ELSE IF Project(config) \notin rProjects
                             THEN "ProjectNotExist" ELSE "LogStoreAlreadyExist"
                 /\ i' = i + 1 /\ brk' = FALSE
                 /\ fails' = Inc(fails, "CreateLogStore")
                 /\ UNCHANGED <<rLogstores, logstoreCacheMap, confirmedAt>>
            ELSE /\ err' = Nil /\ i' = i /\ brk' = TRUE /\ fails' = fails
                 /\ rLogstores' = rLogstores \cup {Key(Project(config), config.Logstore)}
                 /\ logstoreCacheMap' =
                      addLogstoreCache(logstoreCacheMap, Project(config), config.Logstore)
                 /\ confirmedAt' = now
  /\ UNCHANGED concVars
  /\ UNCHANGED <<rProjects, rIndexes, rConfig, rGroups, rApplied, configCacheMap,
                 envVars, pc, ok, serverConfig, mgOk, mgErr, cacheHit, ret, productArgs, sent,
                 lookup, startedAt, warm, fetched, prev, passes>>

\* after the create loop: return the error, or go on to the index
\* variant: the index is created whatever the create loop ended with
LogstoreCreatedIndexingAnyway ==
  /\ LoopDone("CreateLogStore")
  /\ Enter("CreateIndex")
  /\ UNCHANGED concVars
  /\ UNCHANGED <<remoteVars, cacheVars, envVars, ok, err, serverConfig, mgOk, mgErr, cacheHit,
                 calls, fails, createArgs, productArgs, sent, lookup, confirmedAt,
                 startedAt, warm, fetched, prev, passes, faults, ret>>
\* variant: a failed create falls through to the config step
LogstoreCreatedFallingThrough ==
  /\ LoopDone("CreateLogStore")
  /\ ret' = [ret EXCEPT !["logstore"] = err]
  /\ Enter("GetConfig")
  /\ UNCHANGED concVars
  /\ UNCHANGED <<remoteVars, cacheVars, envVars, ok, err, serverConfig, mgOk, mgErr, cacheHit,
                 calls, fails, createArgs, productArgs, sent, lookup, confirmedAt,
                 startedAt, warm, fetched, prev, passes, faults>>
LogstoreCreated ==
  /\ LoopDone("CreateLogStore")
  /\ IF err # Nil
       THEN /\ ret' = [ret EXCEPT !["logstore"] = err, !["pass"] = err]
            /\ pc' = "idle" /\ i' = 0 /\ brk' = FALSE
       ELSE /\ Enter("CreateIndex")
            /\ ret' = ret
  /\ UNCHANGED concVars
  /\ UNCHANGED <<remoteVars, cacheVars, envVars, ok, err, serverConfig, mgOk, mgErr, cacheHit,
                 calls, fails, createArgs, productArgs, sent, lookup, confirmedAt,
                 startedAt, warm, fetched, prev, passes, faults>>

CreateIndex ==
  /\ LoopCall("CreateIndex")
  /\ calls' = Inc(calls, "CreateIndex")
  /\ \E fault \in FaultChoices :
       /\ Spend(fault)
       /\ IF fault \/ Key(Project(config), config.Logstore) \notin rLogstores
             \/ Key(Project(config), config.Logstore) \in rIndexes
            THEN /\ err' = IF fault THEN "Transient"
                           ELSE IF Key(Project(config), config.Logstore) \in rIndexes
                             THEN "IndexAlreadyExist" ELSE "LogStoreNotExist"
                 /\ i' = i + 1 /\ brk' = FALSE
                 /\ fails' = Inc(fails, "CreateIndex")
                 /\ rIndexes' = rIndexes
            ELSE /\ err' = Nil /\ i' = i /\ brk' = TRUE /\ fails' = fails
                 /\ rIndexes' = rIndexes \cup {Key(Project(config), config.Logstore)}
  /\ UNCHANGED concVars
  /\ UNCHANGED <<rProjects, rLogstores, rConfig, rGroups, rApplied, cacheVars, envVars,
                 pc, ok, serverConfig, mgOk, mgErr, cacheHit, ret, createArgs, productArgs, sent,
                 lookup, confirmedAt, startedAt, warm, fetched, prev, passes>>

\* after the index loop: makesureLogstoreExist returns nil whatever err is
\* variant: the last index error is returned
IndexCreatedFatal ==
  /\ LoopDone("CreateIndex")
  /\ IF err # Nil
       THEN /\ ret' = [ret EXCEPT !["logstore"] = err, !["pass"] = err]
            /\ pc' = "idle" /\ i' = 0 /\ brk' = FALSE
            /\ UNCHANGED <<ok, err>>
       ELSE /\ ret' = [ret EXCEPT !["logstore"] = Nil]
            /\ Enter("GetConfig")
            /\ ok' = FALSE /\ err' = Nil
  /\ UNCHANGED concVars
  /\ UNCHANGED <<remoteVars, cacheVars, envVars, serverConfig, mgOk, mgErr, cacheHit, calls, fails,
                 createArgs, productArgs, sent, lookup, confirmedAt, startedAt, warm, fetched, prev,
                 passes, faults>>
IndexCreated ==
  /\ LoopDone("CreateIndex")
  /\ ret' = [ret EXCEPT !["logstore"] = Nil]
  /\ Enter("GetConfig")
  /\ ok' = FALSE /\ err' = Nil
  /\ UNCHANGED concVars
  /\ UNCHANGED <<remoteVars, cacheVars, envVars, serverConfig, mgOk, mgErr, cacheHit, calls, fails,
                 createArgs, productArgs, sent, lookup, confirmedAt, startedAt, warm, fetched, prev,
                 passes, faults>>

\* ------------------------------------------- updateConfigInner, the config
\* variant: a ConfigNotExist answer is retried like any other error
GetConfigRetryingNotExist ==
  /\ LoopCall("GetConfig")
  /\ calls' = Inc(calls, "GetConfig")
  /\ \E fault \in FaultChoices :
       /\ Spend(fault)
       /\ IF fault
            THEN /\ serverConfig' = NoConfig /\ err' = "Transient"
                 /\ ok' = ok /\ i' = i + 1 /\ brk' = FALSE
                 /\ fails' = Inc(fails, "GetConfig") /\ fetched' = fetched
            ELSE IF rConfig = NoConfig
            THEN /\ serverConfig' = NoConfig /\ err' = "ConfigNotExist"
                 /\ ok' = ok /\ i' = i + 1 /\ brk' = FALSE
                 /\ fails' = Inc(fails, "GetConfig") /\ fetched' = fetched
            ELSE /\ serverConfig' = rConfig /\ err' = Nil
                 /\ ok' = TRUE /\ i' = i /\ brk' = TRUE /\ fails' = fails
                 /\ fetched' = rConfig
  /\ UNCHANGED concVars
  /\ UNCHANGED <<remoteVars, cacheVars, envVars, pc, mgOk, mgErr, cacheHit, ret,
                 createArgs, productArgs, sent, lookup, confirmedAt, startedAt, warm, prev,
                 passes>>
GetConfig ==
  /\ LoopCall("GetConfig")
  /\ calls' = Inc(calls, "GetConfig")
  /\ \E fault \in FaultChoices :
       /\ Spend(fault)
       /\ IF fault
            THEN /\ serverConfig' = NoConfig /\ err' = "Transient"
                 /\ ok' = ok /\ i' = i + 1 /\ brk' = FALSE
                 /\ fails' = Inc(fails, "GetConfig") /\ fetched' = fetched
            ELSE IF rConfig = NoConfig
            THEN /\ serverConfig' = NoConfig /\ err' = "ConfigNotExist"
                 /\ ok' = ok /\ i' = i /\ brk' = TRUE
                 /\ fails' = Inc(fails, "GetConfig") /\ fetched' = fetched
            ELSE /\ serverConfig' = rConfig /\ err' = Nil
                 /\ ok' = TRUE /\ i' = i /\ brk' = TRUE /\ fails' = fails
                 /\ fetched' = rConfig
  /\ UNCHANGED concVars
  /\ UNCHANGED <<remoteVars, cacheVars, envVars, pc, mgOk, mgErr, cacheHit, ret,
                 createArgs, productArgs, sent, lookup, confirmedAt, startedAt, warm, prev,
                 passes>>

\* variant: only the path and the pattern are compared
checkFileConfigChangedPathOnly(filePath, filePattern, includeEnv, includeLabel, serverConfigDetail) ==
  \/ filePath # InterfaceToString(Get(serverConfigDetail, "logPath"))
  \/ filePattern # InterfaceToString(Get(serverConfigDetail, "filePattern"))
checkFileConfigChanged(filePath, filePattern, includeEnv, includeLabel, serverConfigDetail) ==
  LET serverFilePath == InterfaceToString(Get(serverConfigDetail, "logPath"))
      serverFilePattern == InterfaceToString(Get(serverConfigDetail, "filePattern"))
      serverIncludeEnv == InterfaceToJSONString(Get(serverConfigDetail, "dockerIncludeEnv"))
      serverIncludeLabel == InterfaceToJSONString(Get(serverConfigDetail, "dockerIncludeLabel"))
  IN \/ filePath # serverFilePath
     \/ filePattern # serverFilePattern
     \/ includeEnv # serverIncludeEnv
     \/ includeLabel # serverIncludeLabel

\* serverConfig.InputDetail.(map[string]interface{}) succeeds
IsMap(detail) == detail # Opaque

\* the simple-mode comparison of lines 496-504 finds something to patch
FilePatchNeeded(c, server) ==
  /\ c.InputType = "file" /\ server.InputType = "file" /\ IsMap(server.InputDetail)
  /\ Len(InterfaceToString(Get(c.InputDetail, "filePattern"))) > 0
  /\ Len(InterfaceToString(Get(c.InputDetail, "logPath"))) > 0
  /\ checkFileConfigChanged(InterfaceToString(Get(c.InputDetail, "logPath")),
                            InterfaceToString(Get(c.InputDetail, "filePattern")),
                            InterfaceToJSONString(Get(c.InputDetail, "dockerIncludeEnv")),
                            InterfaceToJSONString(Get(c.InputDetail, "dockerIncludeLabel")),
                            server.InputDetail)

\* the remote input detail with the desired file settings written into it
\* variant: the remote detail is replaced by the compared fields, not merged
PatchDetailReplacing(local, configDetail) ==
  [k \in {"logPath", "filePattern"} |-> Str(InterfaceToString(Get(local, k)))]
PatchDetail(local, configDetail) ==
  LET d1 == Put(configDetail, "logPath", Str(InterfaceToString(Get(local, "logPath"))))
      d2 == Put(d1, "filePattern", Str(InterfaceToString(Get(local, "filePattern"))))
      d3 == Put(d2, "dockerIncludeEnv", Get(local, "dockerIncludeEnv"))
  IN IF "dockerIncludeLabel" \in DOMAIN configDetail
        /\ "dockerIncludeLabel" \in DOMAIN local
       THEN Put(d3, "dockerIncludeLabel", local["dockerIncludeLabel"])
       ELSE d3

\* the input type changed and the remote detail is a map
ForceUpdateNeeded(c, server) ==
  c.InputType # server.InputType /\ IsMap(server.InputDetail)

\* the config step is over without an update: on to the machine group
ToMachineGroup ==
  /\ Enter("CheckMachineGroupExist")
  /\ mgOk' = FALSE /\ mgErr' = Nil

\* variant: a found config is patched or replaced whatever the mode
ConfigFetchedIgnoringMode ==
  /\ LoopDone("GetConfig")
  /\ IF ok /\ serverConfig # NoConfig
       THEN IF FilePatchNeeded(config, serverConfig)
              THEN /\ serverConfig' =
                        [serverConfig EXCEPT !.InputDetail =
                           PatchDetail(config.InputDetail, serverConfig.InputDetail)]
                   /\ Enter("UpdateConfig")
                   /\ UNCHANGED <<ret, mgOk, mgErr>>
            ELSE IF ForceUpdateNeeded(config, serverConfig)
              THEN /\ Enter("ForceUpdateConfig")
                   /\ UNCHANGED <<ret, serverConfig, mgOk, mgErr>>
            ELSE /\ ret' = [ret EXCEPT !["config"] = Nil]
                 /\ ToMachineGroup
                 /\ UNCHANGED serverConfig
       ELSE /\ Enter("CreateConfig")
            /\ UNCHANGED <<ret, serverConfig, mgOk, mgErr>>
  /\ UNCHANGED concVars
  /\ UNCHANGED <<remoteVars, cacheVars, envVars, ok, err, cacheHit, calls, fails,
                 createArgs, productArgs, sent, lookup, confirmedAt, startedAt, warm, fetched, prev,
                 passes, faults>>
\* after the fetch loop: create, patch, force an update, or leave the config
ConfigFetched ==
  /\ LoopDone("GetConfig")
  /\ IF ok /\ serverConfig # NoConfig
       THEN IF config.SimpleConfig /\ FilePatchNeeded(config, serverConfig)
              THEN /\ serverConfig' =
                        [serverConfig EXCEPT !.InputDetail =
                           PatchDetail(config.InputDetail, serverConfig.InputDetail)]
                   /\ Enter("UpdateConfig")
                   /\ UNCHANGED <<ret, mgOk, mgErr>>
            ELSE IF config.SimpleConfig /\ ForceUpdateNeeded(config, serverConfig)
              THEN /\ Enter("ForceUpdateConfig")
                   /\ UNCHANGED <<ret, serverConfig, mgOk, mgErr>>
            ELSE /\ ret' = [ret EXCEPT !["config"] = Nil]
                 /\ ToMachineGroup
                 /\ UNCHANGED serverConfig
       ELSE /\ Enter("CreateConfig")
            /\ UNCHANGED <<ret, serverConfig, mgOk, mgErr>>
  /\ UNCHANGED concVars
  /\ UNCHANGED <<remoteVars, cacheVars, envVars, ok, err, cacheHit, calls, fails,
                 createArgs, productArgs, sent, lookup, confirmedAt, startedAt, warm, fetched, prev,
                 passes, faults>>

\* one UpdateConfig or CreateConfig call with the object obj
PushConfig(at, op, obj) ==
  /\ LoopCall(at)
  /\ calls' = Inc(calls, op)
  /\ sent' = obj
  /\ \E fault \in FaultChoices :
       /\ Spend(fault)
       /\ IF fault \/ (op = "CreateConfig") # (rConfig = NoConfig)
            THEN /\ err' = IF fault THEN "Transient"
                           ELSE IF rConfig = NoConfig THEN "ConfigNotExist"
                           ELSE "ConfigAlreadyExist"
                 /\ i' = i + 1 /\ brk' = FALSE
                 /\ fails' = Inc(fails, op)
                 /\ rConfig' = rConfig
            ELSE /\ err' = Nil /\ i' = i /\ brk' = TRUE /\ fails' = fails
                 /\ rConfig' = obj
  /\ UNCHANGED concVars
  /\ UNCHANGED <<rProjects, rLogstores, rIndexes, rGroups, rApplied, cacheVars,
                 envVars, pc, ok, serverConfig, mgOk, mgErr, cacheHit, ret, createArgs,
                 productArgs, lookup, confirmedAt, startedAt, warm, fetched, prev, passes>>

UpdateConfig == PushConfig("UpdateConfig", "UpdateConfig", serverConfig)
ForceUpdateConfig == PushConfig("ForceUpdateConfig", "UpdateConfig", aliyunLogConfig(config))
CreateConfig == PushConfig("CreateConfig", "CreateConfig", aliyunLogConfig(config))

\* after a create or update loop: line 572 returns the error, if any
\* variant: a failed create or update does not end the pass
ConfigPushedGoingOn ==
  /\ \/ LoopDone("UpdateConfig") \/ LoopDone("ForceUpdateConfig")
     \/ LoopDone("CreateConfig")
  /\ ret' = [ret EXCEPT !["config"] = err]
  /\ ToMachineGroup
  /\ UNCHANGED concVars
  /\ UNCHANGED <<remoteVars, cacheVars, envVars, ok, err, serverConfig, cacheHit,
                 calls, fails, createArgs, productArgs, sent, lookup, confirmedAt,
                 startedAt, warm, fetched, prev, passes, faults>>
ConfigPushed ==
  /\ \/ LoopDone("UpdateConfig") \/ LoopDone("ForceUpdateConfig")
     \/ LoopDone("CreateConfig")
  /\ IF err # Nil
       THEN /\ ret' = [ret EXCEPT !["config"] = err, !["pass"] = err]
            /\ pc' = "idle" /\ i' = 0 /\ brk' = FALSE
            /\ UNCHANGED <<mgOk, mgErr>>
       ELSE /\ ret' = [ret EXCEPT !["config"] = Nil]
            /\ ToMachineGroup
  /\ UNCHANGED concVars
  /\ UNCHANGED <<remoteVars, cacheVars, envVars, ok, err, serverConfig, cacheHit,
                 calls, fails, createArgs, productArgs, sent, lookup, confirmedAt,
                 startedAt, warm, fetched, prev, passes, faults>>

\* ------------------------------------------------ makesureMachineGroupExist
CheckMachineGroupExist ==
  /\ LoopCall("CheckMachineGroupExist")
  /\ calls' = Inc(calls, "CheckMachineGroupExist")
  /\ \E fault \in FaultChoices :
       /\ Spend(fault)
       /\ IF fault
            THEN /\ mgOk' = FALSE /\ mgErr' = "Transient" /\ i' = i + 1 /\ brk' = FALSE
                 /\ fails' = Inc(fails, "CheckMachineGroupExist")
            ELSE /\ mgOk' = (MachineGroupOf(config) \in rGroups) /\ mgErr' = Nil
                 /\ i' = i /\ brk' = TRUE /\ fails' = fails
  /\ UNCHANGED concVars
  /\ UNCHANGED <<remoteVars, cacheVars, envVars, pc, ok, err, serverConfig, cacheHit,
                 ret, createArgs, productArgs, sent, lookup, confirmedAt, startedAt, warm, fetched,
                 prev, passes>>

\* where updateConfigInner goes once makesureMachineGroupExist has returned:
\* its result is dropped, and ok says whether the config was found
AfterMachineGroup ==
  IF ok THEN Enter("GetAppliedMachineGroups") ELSE Enter("ApplyConfigToMachineGroup")

MachineGroupChecked ==
  /\ LoopDone("CheckMachineGroupExist")
  /\ IF mgOk
       THEN /\ ret' = [ret EXCEPT !["machineGroup"] = Nil]
            /\ AfterMachineGroup
       ELSE /\ Enter("CreateMachineGroup")
            /\ ret' = ret
  /\ UNCHANGED concVars
  /\ UNCHANGED <<remoteVars, cacheVars, envVars, ok, err, serverConfig, mgOk, mgErr,
                 cacheHit, calls, fails, createArgs, productArgs, sent, lookup,
                 confirmedAt, startedAt, warm, fetched, prev, passes, faults>>

CreateMachineGroup ==
  /\ LoopCall("CreateMachineGroup")
  /\ calls' = Inc(calls, "CreateMachineGroup")
  /\ \E fault \in FaultChoices :
       /\ Spend(fault)
       /\ IF fault \/ MachineGroupOf(config) \in rGroups
            THEN /\ mgErr' = IF fault THEN "Transient" ELSE "GroupAlreadyExist"
                 /\ i' = i + 1 /\ brk' = FALSE
                 /\ fails' = Inc(fails, "CreateMachineGroup")
                 /\ rGroups' = rGroups
            ELSE /\ mgErr' = Nil /\ i' = i /\ brk' = TRUE /\ fails' = fails
                 /\ rGroups' = rGroups \cup {MachineGroupOf(config)}
  /\ UNCHANGED concVars
  /\ UNCHANGED <<rProjects, rLogstores, rIndexes, rConfig, rApplied, cacheVars,
                 envVars, pc, ok, err, serverConfig, mgOk, cacheHit, ret, createArgs,
                 productArgs, sent, lookup, confirmedAt, startedAt, warm, fetched, prev, passes>>

MachineGroupCreated ==
  /\ LoopDone("CreateMachineGroup")
  /\ ret' = [ret EXCEPT !["machineGroup"] = mgErr]
  /\ AfterMachineGroup
  /\ UNCHANGED concVars
  /\ UNCHANGED <<remoteVars, cacheVars, envVars, ok, err, serverConfig, mgOk, mgErr,
                 cacheHit, calls, fails, createArgs, productArgs, sent, lookup,
                 confirmedAt, startedAt, warm, fetched, prev, passes, faults>>

\* ------------------------------------------ updateConfigInner, the binding
GetAppliedMachineGroups ==
  /\ LoopCall("GetAppliedMachineGroups")
  /\ calls' = Inc(calls, "GetAppliedMachineGroups")
  /\ \E fault \in FaultChoices :
       /\ Spend(fault)
       /\ IF fault \/ rConfig = NoConfig
            THEN /\ err' = IF fault THEN "Transient" ELSE "ConfigNotExist"
                 /\ i' = i + 1 /\ brk' = FALSE
                 /\ fails' = Inc(fails, "GetAppliedMachineGroups")
            ELSE /\ err' = Nil /\ i' = i /\ brk' = TRUE /\ fails' = fails
  /\ UNCHANGED concVars
  /\ UNCHANGED <<remoteVars, cacheVars, envVars, pc, ok, serverConfig, mgOk, mgErr,
                 cacheHit, ret, createArgs, productArgs, sent, lookup, confirmedAt,
                 startedAt, warm, fetched, prev, passes>>

\* after the loop: return the error, or note in ok whether the group is bound
AppliedFetched ==
  /\ LoopDone("GetAppliedMachineGroups")
  /\ IF err # Nil
       THEN /\ ret' = [ret EXCEPT !["bind"] = err, !["pass"] = err]
            /\ pc' = "idle" /\ i' = 0 /\ brk' = FALSE
            /\ ok' = ok
       ELSE /\ ok' = (MachineGroupOf(config) \in rApplied)
            /\ Enter("ApplyConfigToMachineGroup")
            /\ ret' = ret
  /\ UNCHANGED concVars
  /\ UNCHANGED <<remoteVars, cacheVars, envVars, err, serverConfig, mgOk, mgErr,
                 cacheHit, calls, fails, createArgs, productArgs, sent, lookup,
                 confirmedAt, startedAt, warm, fetched, prev, passes, faults>>

ApplyConfigToMachineGroup ==
  /\ LoopCall("ApplyConfigToMachineGroup")
  /\ calls' = Inc(calls, "ApplyConfigToMachineGroup")
  /\ \E fault \in FaultChoices :
       /\ Spend(fault)
       /\ IF fault \/ rConfig = NoConfig \/ MachineGroupOf(config) \notin rGroups
            THEN /\ err' = IF fault THEN "Transient"
                           ELSE IF rConfig = NoConfig THEN "ConfigNotExist"
                           ELSE "GroupNotExist"
                 /\ i' = i + 1 /\ brk' = FALSE
                 /\ fails' = Inc(fails, "ApplyConfigToMachineGroup")
                 /\ rApplied' = rApplied
            ELSE /\ err' = Nil /\ i' = i /\ brk' = TRUE /\ fails' = fails
                 /\ rApplied' = rApplied \cup {MachineGroupOf(config)}
  /\ UNCHANGED concVars
  /\ UNCHANGED <<rProjects, rLogstores, rIndexes, rConfig, rGroups, cacheVars,
                 envVars, pc, ok, serverConfig, mgOk, mgErr, cacheHit, ret, createArgs,
                 productArgs, sent, lookup, confirmedAt, startedAt, warm, fetched, prev, passes>>

\* after the loop: return the error, or record the config and return nil
ConfigApplied ==
  /\ LoopDone("ApplyConfigToMachineGroup")
  /\ IF err # Nil
       THEN /\ ret' = [ret EXCEPT !["bind"] = err, !["pass"] = err]
            /\ configCacheMap' = configCacheMap
       ELSE /\ ret' = [ret EXCEPT !["bind"] = Nil, !["pass"] = Nil]
            /\ configCacheMap' = addConfigCache(configCacheMap, Project(config), ConfigName)
  /\ pc' = "idle" /\ i' = 0 /\ brk' = FALSE
  /\ UNCHANGED concVars
  /\ UNCHANGED <<remoteVars, logstoreCacheMap, envVars, ok, err, serverConfig, mgOk,
                 mgErr, cacheHit, calls, fails, createArgs, productArgs, sent, lookup,
                 confirmedAt, startedAt, warm, fetched, prev, passes, faults>>

\* -------------------------------------------------------------- deleteConfig
deleteConfig ==
  /\ pc = "idle" /\ passes < MaxPasses
  /\ passes' = passes + 1
  /\ prev' = IF ret["pass"] \in {"none", Nil} THEN ret["pass"] ELSE "err"
  /\ Enter("DeleteConfig")
  /\ ret' = NoReturns /\ calls' = ZeroCalls /\ fails' = ZeroCalls
  /\ ok' = FALSE /\ err' = Nil /\ serverConfig' = NoConfig
  /\ mgOk' = FALSE /\ mgErr' = Nil /\ cacheHit' = FALSE
  /\ createArgs' = NoArgs /\ productArgs' = NoArgs /\ sent' = NoConfig
  /\ lookup' = <<"none", FALSE>> /\ startedAt' = now
  /\ warm' = FALSE /\ fetched' = NoConfig
  /\ UNCHANGED concVars
  /\ UNCHANGED <<remoteVars, cacheVars, envVars, confirmedAt, faults>>

\* variant: the cache entry is dropped after a failed call as well
DeleteConfigDroppingOnError ==
  /\ LoopCall("DeleteConfig")
  /\ calls' = Inc(calls, "DeleteConfig")
  /\ \E fault \in FaultChoices :
       /\ Spend(fault)
       /\ IF fault
            THEN /\ err' = "Transient" /\ i' = i + 1 /\ pc' = pc
                 /\ fails' = Inc(fails, "DeleteConfig")
                 /\ configCacheMap' =
                      removeConfigCache(configCacheMap, Project(config), ConfigName)
                 /\ UNCHANGED <<rConfig, rApplied, ret>>
            ELSE /\ err' = IF rConfig = NoConfig THEN "ConfigNotExist" ELSE Nil
                 /\ fails' = IF rConfig = NoConfig THEN Inc(fails, "DeleteConfig") ELSE fails
                 /\ rConfig' = NoConfig /\ rApplied' = {}
                 /\ configCacheMap' =
                      removeConfigCache(configCacheMap, Project(config), ConfigName)
                 /\ ret' = [ret EXCEPT !["delete"] = Nil]
                 /\ pc' = "idle" /\ i' = 0
  /\ brk' = FALSE
  /\ UNCHANGED concVars
  /\ UNCHANGED <<rProjects, rLogstores, rIndexes, rGroups, logstoreCacheMap, envVars,
                 ok, serverConfig, mgOk, mgErr, cacheHit, createArgs, productArgs,
                 sent, lookup, confirmedAt, startedAt, warm, fetched, prev, passes>>
\* one DeleteConfig call; success and a 404 both drop the cache entry and return
DeleteConfig ==
  /\ LoopCall("DeleteConfig")
  /\ calls' = Inc(calls, "DeleteConfig")
  /\ \E fault \in FaultChoices :
       /\ Spend(fault)
       /\ IF fault
            THEN /\ err' = "Transient" /\ i' = i + 1 /\ pc' = pc
                 /\ fails' = Inc(fails, "DeleteConfig")
                 /\ UNCHANGED <<rConfig, rApplied, configCacheMap, ret>>
            ELSE /\ err' = IF rConfig = NoConfig THEN "ConfigNotExist" ELSE Nil
                 /\ fails' = IF rConfig = NoConfig THEN Inc(fails, "DeleteConfig") ELSE fails
                 /\ rConfig' = NoConfig /\ rApplied' = {}
                 /\ configCacheMap' =
                      removeConfigCache(configCacheMap, Project(config), ConfigName)
                 /\ ret' = [ret EXCEPT !["delete"] = Nil]
                 /\ pc' = "idle" /\ i' = 0
  /\ brk' = FALSE
  /\ UNCHANGED concVars
  /\ UNCHANGED <<rProjects, rLogstores, rIndexes, rGroups, logstoreCacheMap, envVars,
                 ok, serverConfig, mgOk, mgErr, cacheHit, createArgs, productArgs,
                 sent, lookup, confirmedAt, startedAt, warm, fetched, prev, passes>>

\* the loop ran out: deleteConfig returns the last error
DeleteFailed ==
  /\ LoopDone("DeleteConfig")
  /\ ret' = [ret EXCEPT !["delete"] = err]
  /\ pc' = "idle" /\ i' = 0 /\ brk' = FALSE
  /\ UNCHANGED concVars
  /\ UNCHANGED <<remoteVars, cacheVars, envVars, ok, err, serverConfig, mgOk, mgErr,
                 cacheHit, calls, fails, createArgs, productArgs, sent, lookup,
                 confirmedAt, startedAt, warm, fetched, prev, passes, faults>>

\* ------------------------------------------------- lookups made by a caller
LogstoreCacheLookup ==
  /\ pc = "idle" /\ passes < MaxPasses
  /\ lookup' = <<"logstore", logstoreCacheExists(Project(config), config.Logstore)>>
  /\ UNCHANGED concVars
  /\ UNCHANGED <<remoteVars, cacheVars, envVars, localVars, cacheHit, calls, fails,
                 ret, createArgs, productArgs, sent, confirmedAt, startedAt, warm, fetched, prev,
                 passes, faults>>

ConfigCacheLookup ==
  /\ pc = "idle" /\ passes < MaxPasses
  /\ lookup' = <<"config", configCacheExists(Project(config), ConfigName)>>
  /\ UNCHANGED concVars
  /\ UNCHANGED <<remoteVars, cacheVars, envVars, localVars, cacheHit, calls, fails,
                 ret, createArgs, productArgs, sent, confirmedAt, startedAt, warm, fetched, prev,
                 passes, faults>>

\* ------------------------------------------------------------------ the clock
Tick ==
  /\ pc = "idle" /\ now < MaxTime
  /\ 0 < passes /\ passes < MaxPasses
  /\ now' = now + 1
  /\ lookup' = <<"none", FALSE>>
  /\ UNCHANGED concVars
  /\ UNCHANGED <<remoteVars, cacheVars, maxRetry, config, localVars, cacheHit, calls,
                 fails, ret, createArgs, productArgs, sent, confirmedAt, startedAt, warm, fetched,
                 prev, passes, faults>>

Next ==
  \/ updateConfigInner \/ createProductLogstore
  \/ CheckProjectExist \/ ProjectChecked \/ CreateProject \/ ProjectCreated
  \/ CheckLogstoreExist \/ LogstoreChecked \/ CreateLogStore \/ LogstoreCreated
  \/ CreateIndex \/ IndexCreated
  \/ GetConfig \/ ConfigFetched \/ UpdateConfig \/ ForceUpdateConfig \/ CreateConfig
  \/ ConfigPushed
  \/ CheckMachineGroupExist \/ MachineGroupChecked \/ CreateMachineGroup
  \/ MachineGroupCreated
  \/ GetAppliedMachineGroups \/ AppliedFetched \/ ApplyConfigToMachineGroup
  \/ ConfigApplied
  \/ deleteConfig \/ DeleteConfig \/ DeleteFailed
  \/ LogstoreCacheLookup \/ ConfigCacheLookup
  \/ Tick

Spec == Init /\ [][Next]_vars

\* Every remote call returns and the goroutine running a pass keeps running:
\* a step of a started pass or deletion that can be taken is taken.
PassStep ==
  \/ createProductLogstore
  \/ CheckProjectExist \/ ProjectChecked \/ CreateProject \/ ProjectCreated
  \/ CheckLogstoreExist \/ LogstoreChecked \/ CreateLogStore \/ LogstoreCreated
  \/ CreateIndex \/ IndexCreated
  \/ GetConfig \/ ConfigFetched \/ UpdateConfig \/ ForceUpdateConfig \/ CreateConfig
  \/ ConfigPushed
  \/ CheckMachineGroupExist \/ MachineGroupChecked \/ CreateMachineGroup
  \/ MachineGroupCreated
  \/ GetAppliedMachineGroups \/ AppliedFetched \/ ApplyConfigToMachineGroup
  \/ ConfigApplied
  \/ DeleteConfig \/ DeleteFailed

LiveSpec == Init /\ [][Next]_vars /\ WF_vars(PassStep)

\* ================================================= goroutines sharing a wrapper
\* Several reconciliations call into one operationWrapper at the same time. Each
\* goroutine t runs makesureLogstoreExist for the same spec (default project, no
\* product, so the generic path) and calls the five cache functions; the
\* functions take o.lock, touch a map and release the lock on return.
seqVars == <<rProjects, rConfig, rGroups, rApplied, envVars, localVars, cacheHit, calls,
             fails, ret, createArgs, productArgs, sent, lookup, confirmedAt, startedAt,
             warm, fetched, prev, passes>>

ReadFns == {"logstoreCacheExists", "configCacheExists"}
WriteFns == {"addLogstoreCache", "addConfigCache", "removeConfigCache"}

\* sync.RWMutex: RLock waits for the writer, Lock for the writer and the readers
CanRLock == lock.writer = NoThread
CanLock == lock.writer = NoThread /\ lock.readers = {}

Step(t, r) == thr' = [thr EXCEPT ![t] = r]
\* goroutine t calls the cache function fn and goes to back when it returns
CallCache(t, r, fn, back) ==
  Step(t, [r EXCEPT !.pc = "lock", !.fn = fn, !.back = back])
TLoopCall(t, at) == thr[t].pc = at /\ ~thr[t].brk /\ thr[t].i < maxRetry
TLoopDone(t, at) == thr[t].pc = at /\ (thr[t].brk \/ thr[t].i >= maxRetry)
TheKey == Key(Project(config), config.Logstore)

\* a caller asks one of the cache functions
CacheCall(t) ==
  /\ thr[t].pc = "idle"
  /\ \E fn \in ReadFns \cup WriteFns : CallCache(t, thr[t], fn, "idle")
  /\ UNCHANGED <<lock, cacheVars, rLogstores, rIndexes, faults, seqVars>>

\* o.lock.RLock() in the two lookups, o.lock.Lock() in the three writers
\* variant: the writers take the lock shared, like the lookups
CacheLockShared(t) ==
  /\ thr[t].pc = "lock"
  /\ CanRLock
  /\ lock' = [lock EXCEPT !.readers = @ \cup {t}]
  /\ Step(t, [thr[t] EXCEPT !.pc = "access"])
  /\ UNCHANGED <<cacheVars, rLogstores, rIndexes, faults, seqVars>>
CacheLock(t) ==
  /\ thr[t].pc = "lock"
  /\ IF thr[t].fn \in ReadFns
       THEN CanRLock /\ lock' = [lock EXCEPT !.readers = @ \cup {t}]
       ELSE CanLock /\ lock' = [lock EXCEPT !.writer = t]
  /\ Step(t, [thr[t] EXCEPT !.pc = "access"])
  /\ UNCHANGED <<cacheVars, rLogstores, rIndexes, faults, seqVars>>

\* the function's read or write of its map
CacheAccess(t) ==
  /\ thr[t].pc = "access"
  /\ CASE thr[t].fn = "logstoreCacheExists" ->
            /\ Step(t, [thr[t] EXCEPT !.pc = "unlock",
                          !.found = logstoreCacheExists(Project(config), config.Logstore)])
            /\ UNCHANGED cacheVars
       [] thr[t].fn = "configCacheExists" ->
            /\ Step(t, [thr[t] EXCEPT !.pc = "unlock",
                          !.found = configCacheExists(Project(config), ConfigName)])
            /\ UNCHANGED cacheVars
       [] thr[t].fn = "addLogstoreCache" ->
            /\ logstoreCacheMap' =
                 addLogstoreCache(logstoreCacheMap, Project(config), config.Logstore)
            /\ Step(t, [thr[t] EXCEPT !.pc = "unlock"])
            /\ UNCHANGED configCacheMap
       [] thr[t].fn = "addConfigCache" ->
            /\ configCacheMap' = addConfigCache(configCacheMap, Project(config), ConfigName)
            /\ Step(t, [thr[t] EXCEPT !.pc = "unlock"])
            /\ UNCHANGED logstoreCacheMap
       [] thr[t].fn = "removeConfigCache" ->
            /\ configCacheMap' = removeConfigCache(configCacheMap, Project(config), ConfigName)
            /\ Step(t, [thr[t] EXCEPT !.pc = "unlock"])
            /\ UNCHANGED logstoreCacheMap
  /\ UNCHANGED <<lock, rLogstores, rIndexes, faults, seqVars>>

\* the deferred RUnlock/Unlock, and the return to the caller
CacheUnlock(t) ==
  /\ thr[t].pc = "unlock"
  /\ lock' = [writer |-> IF lock.writer = t THEN NoThread ELSE lock.writer,
              readers |-> lock.readers \ {t}]
  /\ Step(t, [thr[t] EXCEPT !.pc = thr[t].back, !.fn = "none", !.back = "idle",
                !.found = (thr[t].found /\ thr[t].back # "idle")])
  /\ UNCHANGED <<cacheVars, rLogstores, rIndexes, faults, seqVars>>

\* makesureLogstoreExist in goroutine t: it starts with the cache lookup
makesureLogstoreExist(t) ==
  /\ thr[t].pc = "idle" /\ thr[t].res = "none"
  /\ CallCache(t, [IdleThread EXCEPT !.res = "running"], "logstoreCacheExists", "cacheChecked")
  /\ UNCHANGED <<lock, cacheVars, rLogstores, rIndexes, faults, seqVars>>

\* lines 213-235: return nil on a hit, else go to the check loop
CacheCheckedBy(t) ==
  /\ thr[t].pc = "cacheChecked"
  /\ IF thr[t].found
       THEN Step(t, [thr[t] EXCEPT !.pc = "idle", !.res = Nil, !.found = FALSE])
       ELSE Step(t, [thr[t] EXCEPT !.pc = "CheckLogstoreExist", !.i = 0, !.brk = FALSE])
  /\ UNCHANGED <<lock, cacheVars, rLogstores, rIndexes, faults, seqVars>>

CheckLogstoreExistBy(t) ==
  /\ TLoopCall(t, "CheckLogstoreExist")
  /\ \E fault \in FaultChoices :
       /\ Spend(fault)
       /\ IF fault
            THEN Step(t, [thr[t] EXCEPT !.ok = FALSE, !.err = "Transient", !.i = @ + 1])
            ELSE Step(t, [thr[t] EXCEPT !.ok = (TheKey \in rLogstores), !.err = Nil,
                                        !.brk = TRUE])
  /\ UNCHANGED <<lock, cacheVars, rLogstores, rIndexes, seqVars>>

\* lines 243-258: record and return when the logstore exists, else create it
LogstoreCheckedBy(t) ==
  /\ TLoopDone(t, "CheckLogstoreExist")
  /\ IF thr[t].ok
       THEN CallCache(t, [thr[t] EXCEPT !.err = Nil], "addLogstoreCache", "return")
       ELSE Step(t, [thr[t] EXCEPT !.pc = "CreateLogStore", !.i = 0, !.brk = FALSE])
  /\ UNCHANGED <<lock, cacheVars, rLogstores, rIndexes, faults, seqVars>>

\* one CreateLogStore call; on success the goroutine records the logstore
CreateLogStoreBy(t) ==
  /\ TLoopCall(t, "CreateLogStore")
  /\ \E fault \in FaultChoices :
       /\ Spend(fault)
       /\ IF fault \/ TheKey \in rLogstores
            THEN /\ Step(t, [thr[t] EXCEPT
                               !.err = IF fault THEN "Transient" ELSE "LogStoreAlreadyExist",
                               !.i = @ + 1, !.creates = @ + 1])
                 /\ rLogstores' = rLogstores
            ELSE /\ CallCache(t, [thr[t] EXCEPT !.err = Nil, !.brk = TRUE, !.creates = @ + 1],
                              "addLogstoreCache", "CreateLogStore")
                 /\ rLogstores' = rLogstores \cup {TheKey}
  /\ UNCHANGED <<lock, cacheVars, rIndexes, seqVars>>

\* lines 269-283: return the error, or go on to the index
LogstoreCreatedBy(t) ==
  /\ TLoopDone(t, "CreateLogStore")
  /\ IF thr[t].err # Nil
       THEN Step(t, [thr[t] EXCEPT !.pc = "idle", !.res = thr[t].err])
       ELSE Step(t, [thr[t] EXCEPT !.pc = "CreateIndex", !.i = 0, !.brk = FALSE])
  /\ UNCHANGED <<lock, cacheVars, rLogstores, rIndexes, faults, seqVars>>

CreateIndexBy(t) ==
  /\ TLoopCall(t, "CreateIndex")
  /\ \E fault \in FaultChoices :
       /\ Spend(fault)
       /\ IF fault \/ TheKey \notin rLogstores \/ TheKey \in rIndexes
            THEN /\ Step(t, [thr[t] EXCEPT
                               !.err = IF fault THEN "Transient"
                                       ELSE IF TheKey \in rIndexes THEN "IndexAlreadyExist"
                                       ELSE "LogStoreNotExist",
                               !.i = @ + 1])
                 /\ rIndexes' = rIndexes
            ELSE /\ Step(t, [thr[t] EXCEPT !.err = Nil, !.brk = TRUE])
                 /\ rIndexes' = rIndexes \cup {TheKey}
  /\ UNCHANGED <<lock, cacheVars, rLogstores, seqVars>>

\* lines 293-299: nil whatever the index loop's error
IndexCreatedBy(t) ==
  /\ TLoopDone(t, "CreateIndex")
  /\ Step(t, [thr[t] EXCEPT !.pc = "idle", !.res = Nil])
  /\ UNCHANGED <<lock, cacheVars, rLogstores, rIndexes, faults, seqVars>>

\* line 246: return nil after the confirmed logstore was recorded
ReturnBy(t) ==
  /\ thr[t].pc = "return"
  /\ Step(t, [thr[t] EXCEPT !.pc = "idle", !.res = Nil])
  /\ UNCHANGED <<lock, cacheVars, rLogstores, rIndexes, faults, seqVars>>

\* the wrapper after construction, about to reconcile a spec of the default
\* project whose logstore is absent remotely
ConcInit ==
  /\ Init
  /\ config = BaseConfig
  /\ rLogstores = {} /\ rConfig = NoConfig
  /\ rGroups = {DefaultLogMachineGroup} /\ rApplied = {}

ConcNext ==
  \E t \in Threads :
    \/ CacheCall(t) \/ CacheLock(t) \/ CacheAccess(t) \/ CacheUnlock(t)
    \/ makesureLogstoreExist(t) \/ CacheCheckedBy(t)
    \/ CheckLogstoreExistBy(t) \/ LogstoreCheckedBy(t)
    \/ CreateLogStoreBy(t) \/ LogstoreCreatedBy(t)
    \/ CreateIndexBy(t) \/ IndexCreatedBy(t) \/ ReturnBy(t)

ConcSpec == ConcInit /\ [][ConcNext]_vars

\* ======================================================== the claims, C1..C10
Mutating == {"CreateProject", "CreateLogStore", "CreateIndex", "CreateConfig",
             "UpdateConfig", "CreateMachineGroup", "ApplyConfigToMachineGroup"}
LogstoreCalls == {"CheckProjectExist", "CreateProject", "CheckLogstoreExist",
                  "CreateLogStore", "CreateIndex"}
Failed(step) == ret[step] \notin {"none", Nil}
PassReturned == pc = "idle" /\ ret["pass"] # "none"

\* the remote config has the declared input type and the four compared fields
\* of the desired spec
NoDrift(c, rc) ==
  /\ rc # NoConfig /\ IsMap(rc.InputDetail)
  /\ c.InputType = rc.InputType
  /\ \A k \in {"logPath", "filePattern"} :
       InterfaceToString(Get(c.InputDetail, k)) = InterfaceToString(Get(rc.InputDetail, k))
  /\ \A k \in {"dockerIncludeEnv", "dockerIncludeLabel"} :
       InterfaceToJSONString(Get(c.InputDetail, k))
         = InterfaceToJSONString(Get(rc.InputDetail, k))

\* C1: when a pass follows a pass of the same spec that returned success, the
\* spec is in simple mode, the remote config shows no difference from it and
\* no remote call of the second pass has failed, the second pass has issued
\* none of the mutating remote calls.
C1_SecondPassMutatesNothing ==
  ( /\ prev = Nil /\ config.SimpleConfig /\ NoDrift(config, rConfig)
    /\ \A op \in Ops : fails[op] = 0 )
    => \A op \in Mutating : calls[op] = 0

\* C2: once GetAppliedMachineGroups has answered in a pass that found the
\* config, and the target group is among the groups it returned, the pass
\* issues no ApplyConfigToMachineGroup call.
C2_BoundGroupNotApplied ==
  ( /\ fetched # NoConfig
    /\ calls["GetAppliedMachineGroups"] > fails["GetAppliedMachineGroups"]
    /\ pc \in {"ApplyConfigToMachineGroup", "idle"}
    /\ ok )
    => calls["ApplyConfigToMachineGroup"] = 0

\* C3: an already-exists answer to a create call counts as success: the call
\* is not made again after it, and no step of the pass returns that error.
AlreadyExists == {"ProjectAlreadyExist", "LogStoreAlreadyExist", "ConfigAlreadyExist",
                  "GroupAlreadyExist"}
C3_AlreadyExistsIsSuccess ==
  /\ \A s \in Steps : ret[s] \notin AlreadyExists
  /\ (err \in AlreadyExists \/ mgErr \in AlreadyExists) => ~(\E at \in Ops : LoopCall(at))

\* C4: for each retried mutation, once its step has returned: if the call was
\* made and failed every time, it was made exactly maxRetry times and the step
\* returned an error; if it failed maxRetry-1 times and then succeeded, it was
\* made exactly maxRetry times and the step returned success.
StepOf(op) ==
  CASE op = "CreateProject" -> "project"
    [] op = "CreateLogStore" -> "logstore"
    [] op \in {"CreateConfig", "UpdateConfig"} -> "config"
    [] op = "CreateMachineGroup" -> "machineGroup"
    [] op = "ApplyConfigToMachineGroup" -> "bind"
Retried == {"CreateProject", "CreateLogStore", "CreateConfig", "UpdateConfig",
            "CreateMachineGroup", "ApplyConfigToMachineGroup"}
C4_RetryBound ==
  \A op \in Retried :
    ret[StepOf(op)] # "none" =>
      /\ (calls[op] >= 1 /\ fails[op] = calls[op])
           => (calls[op] = maxRetry /\ Failed(StepOf(op)))
      /\ (calls[op] >= 1 /\ fails[op] = maxRetry - 1 /\ calls[op] = fails[op] + 1)
           => (calls[op] = maxRetry /\ ret[StepOf(op)] = Nil)
C4_Witness ==
  /\ maxRetry = MaxRetryTimes
  /\ calls["CreateLogStore"] = maxRetry /\ fails["CreateLogStore"] = maxRetry
  /\ Failed("logstore")
  /\ calls["CreateMachineGroup"] = 0

\* C5: a pass that starts less than the TTL after makesureLogstoreExist
\* confirmed or created the logstore issues no project, logstore or index
\* call, and its logstore step returns success.
C5_CacheShortCircuit ==
  warm => /\ \A op \in LogstoreCalls : calls[op] = 0
          /\ ret["logstore"] = Nil
C5_Witness ==
  warm /\ PassReturned /\ ret["pass"] = Nil /\ startedAt > confirmedAt

\* C6: a cache lookup answers true exactly when the key has an entry whose age
\* is below the TTL, and it leaves both maps as they were.
Fresh(m, k) == \E x \in DOMAIN m : x = k /\ now - m[x] < CacheExpireSec
C6_LookupIffFresh ==
  [][ (lookup' # lookup /\ lookup'[1] # "none") =>
        /\ UNCHANGED <<logstoreCacheMap, configCacheMap, now>>
        /\ lookup'[1] = "logstore" =>
             (lookup'[2] <=> Fresh(logstoreCacheMap, Key(Project(config), config.Logstore)))
        /\ lookup'[1] = "config" =>
             (lookup'[2] <=> Fresh(configCacheMap, Key(Project(config), ConfigName))) ]_vars
C6_Witness ==
  /\ lookup = <<"logstore", FALSE>>
  /\ Key(Project(config), config.Logstore) \in DOMAIN logstoreCacheMap
  /\ now - logstoreCacheMap[Key(Project(config), config.Logstore)] >= CacheExpireSec

\* C7, as stated: for a spec with a product code or an audit logstore name the
\* logstore step calls the product API once, whatever the cache holds, and
\* returns what that call returned.
ProductSpec(c) == Len(c.ProductCode) > 0 \/ c.Logstore = AuditLogstore
ProductResult ==
  /\ calls["CreateProductLogstore"] = 1
  /\ \A op \in LogstoreCalls : calls[op] = 0
  /\ (ret["logstore"] = Nil) <=> (fails["CreateProductLogstore"] = 0)
C7_ProductBeforeCache ==
  (ProductSpec(config) /\ ret["logstore"] # "none") => ProductResult

\* C7, amended: the cache is consulted first; on a hit the step returns success
\* with no product call, on a miss it calls the product API once, makes no
\* generic call, and returns what that call returned.
C7_ProductAfterCache ==
  (ProductSpec(config) /\ ret["logstore"] # "none") =>
    IF warm
      THEN calls["CreateProductLogstore"] = 0 /\ ret["logstore"] = Nil
      ELSE ProductResult
C7_Witness ==
  /\ ProductSpec(config) /\ ~warm /\ PassReturned
  /\ calls["CreateProductLogstore"] = 1 /\ ret["logstore"] = Nil
  /\ config.Logstore = AuditLogstore /\ Len(config.ProductCode) = 0

\* C8: a logstore named with the audit prefix and of length 39 never sees a
\* generic CheckLogstoreExist, CreateLogStore or CreateIndex call; a name with
\* only the prefix or only the length, without a product code, never goes to
\* the product API and on a cache miss goes to the generic check.
C8_AuditRouting ==
  /\ config.Logstore = AuditLogstore =>
       \A op \in {"CheckLogstoreExist", "CreateLogStore", "CreateIndex"} : calls[op] = 0
  /\ (config.Logstore \in {ShortAuditLogstore, LongPlainLogstore}
        /\ Len(config.ProductCode) = 0) =>
       /\ calls["CreateProductLogstore"] = 0
       /\ (ret["logstore"] # "none" /\ ~warm /\ ~Failed("project") /\ maxRetry >= 1)
            => calls["CheckLogstoreExist"] >= 1
C8_Witness ==
  /\ config.Logstore = AuditLogstore /\ Len(config.ProductCode) = 0
  /\ calls["CreateProductLogstore"] = 1 /\ productArgs.product = "k8s-audit"
  /\ PassReturned

\* C9: the shard count given to CreateLogStore is 2 for a count <= 0, 10 for a
\* count > 10 and the count itself otherwise; the retention is 180 for a life
\* cycle <= 0 and the life cycle otherwise.
C9_Clamping ==
  createArgs.set =>
    LET sc == IntOf(config.ShardCount)
        lc == IntOf(config.LifeCycle)
    IN /\ createArgs.shardCount = (IF sc <= 0 THEN 2 ELSE IF sc > 10 THEN 10 ELSE sc)
       /\ createArgs.shardCount \in 1..10
       /\ createArgs.ttl = (IF lc <= 0 THEN 180 ELSE lc)
C9_Witness ==
  createArgs.set /\ config.ShardCount = <<15>> /\ createArgs.shardCount = 10
    /\ config.LifeCycle = <<7>> /\ createArgs.ttl = 7

\* the pass fetched a file config whose path alone differs from the desired one
PathDrift ==
  /\ fetched # NoConfig /\ config.SimpleConfig
  /\ config.InputType = "file" /\ fetched.InputType = "file"
  /\ IsMap(fetched.InputDetail)
  /\ InterfaceToString(Get(config.InputDetail, "logPath"))
       # InterfaceToString(Get(fetched.InputDetail, "logPath"))
  /\ InterfaceToString(Get(config.InputDetail, "filePattern"))
       = InterfaceToString(Get(fetched.InputDetail, "filePattern"))
  /\ \A k \in {"dockerIncludeEnv", "dockerIncludeLabel"} :
       InterfaceToJSONString(Get(config.InputDetail, k))
         = InterfaceToJSONString(Get(fetched.InputDetail, k))
\* one UpdateConfig call, whose detail keeps the fields only the remote had
OnePatch ==
  /\ calls["UpdateConfig"] = 1 /\ calls["CreateConfig"] = 0
  /\ IsMap(sent.InputDetail)
  /\ \A k \in DOMAIN fetched.InputDetail \ DOMAIN config.InputDetail :
       k \in DOMAIN sent.InputDetail /\ sent.InputDetail[k] = fetched.InputDetail[k]

\* C10, as stated: whenever the path alone differs, the config step issues
\* exactly one UpdateConfig (if it succeeds at once) that keeps the remote-only
\* fields.
C10_DriftPatched ==
  (PathDrift /\ ret["config"] # "none" /\ fails["UpdateConfig"] = 0) => OnePatch

\* C10, amended: the same, when the desired path and pattern are non-empty.
DesiredFileSet ==
  /\ Len(InterfaceToString(Get(config.InputDetail, "logPath"))) > 0
  /\ Len(InterfaceToString(Get(config.InputDetail, "filePattern"))) > 0
C10_DriftPatchedWhenSet ==
  (PathDrift /\ DesiredFileSet /\ ret["config"] # "none" /\ fails["UpdateConfig"] = 0)
    => OnePatch
C10_Witness ==
  /\ PathDrift /\ DesiredFileSet /\ PassReturned /\ ret["pass"] = Nil
  /\ calls["UpdateConfig"] = 1
  /\ "topicFormat" \in DOMAIN sent.InputDetail \ DOMAIN config.InputDetail

\* ======================================================= the claims, C11..C20
ProjectOps == {"CheckProjectExist", "CreateProject"}
LogstoreOps == {"CheckLogstoreExist", "CreateLogStore", "CreateProductLogstore"}
IndexOps == {"CreateIndex"}
ConfigOps == {"GetConfig", "CreateConfig", "UpdateConfig"}
GroupOps == {"CheckMachineGroupExist", "CreateMachineGroup"}
BindOps == {"GetAppliedMachineGroups", "ApplyConfigToMachineGroup"}
NoCalls(ops) == \A op \in ops : calls[op] = 0
PassFailed == ret["pass"] \notin {"none", Nil}

\* C11: in simple mode, once the config step of a pass that fetched the config
\* has returned, if the declared input type differs from the fetched one an
\* UpdateConfig call was issued and it carried the locally built config.
TypeDiffers == fetched # NoConfig /\ config.SimpleConfig
                 /\ config.InputType # fetched.InputType
C11_TypeChangeForcesUpdate ==
  (TypeDiffers /\ ret["config"] # "none") =>
    (calls["UpdateConfig"] >= 1 /\ sent = aliyunLogConfig(config))

\* C12, as stated: when the project, logstore, config, machine-group or bind
\* step has returned an error, the pass returns an error and no call of a
\* later step is issued.
AbortsAfter(step, later) ==
  Failed(step) => (PassFailed /\ NoCalls(later))
FatalSteps ==
  /\ AbortsAfter("project", LogstoreOps \cup IndexOps \cup ConfigOps \cup GroupOps \cup BindOps)
  /\ AbortsAfter("logstore", ConfigOps \cup GroupOps \cup BindOps)
  /\ AbortsAfter("config", GroupOps \cup BindOps)
  /\ Failed("bind") => PassFailed
C12_FatalAbort ==
  /\ FatalSteps
  /\ Failed("machineGroup") => (NoCalls(BindOps) /\ (pc = "idle" => PassFailed))

\* C12, amended: the same for the project, logstore, config and bind steps;
\* an error of the machine-group step is dropped and the pass goes on to the
\* bind step, whose result is the result of the pass.
C12_FatalAbortButGroup ==
  /\ FatalSteps
  /\ (Failed("machineGroup") /\ pc = "idle") =>
       (ret["bind"] # "none" /\ ret["pass"] = ret["bind"])
C12_Witness ==
  /\ Failed("config") /\ PassReturned /\ calls["UpdateConfig"] = maxRetry
  /\ maxRetry = MaxRetryTimes
C12_GroupWitness ==
  Failed("machineGroup") /\ PassReturned /\ ret["pass"] = Nil

\* the place of a remote call in the order of the steps of a pass
PassOps == ProjectOps \cup LogstoreOps \cup IndexOps \cup ConfigOps \cup GroupOps \cup BindOps
Rank(op) ==
  CASE op \in ProjectOps -> 1
    [] op \in LogstoreOps -> 2
    [] op \in IndexOps -> 3
    [] op \in ConfigOps -> 4
    [] op \in GroupOps -> 5
    [] op \in BindOps -> 6

\* C13: whenever a pass issues a remote call, no call of a later step has been
\* issued in that pass; a config call is issued only after the logstore step
\* returned success, and a machine-group or bind call only after the config
\* step returned without error.
C13_Ordering ==
  [][ \A op \in PassOps :
        calls'[op] > calls[op] =>
          /\ \A later \in PassOps : Rank(later) > Rank(op) => calls[later] = 0
          /\ op \in ConfigOps => ret["logstore"] = Nil
          /\ op \in GroupOps \cup BindOps => ret["config"] = Nil ]_vars
C13_Witness ==
  /\ \A op \in {"CheckProjectExist", "CheckLogstoreExist", "CreateLogStore", "CreateIndex",
                "GetConfig", "CreateConfig", "CheckMachineGroupExist",
                "ApplyConfigToMachineGroup"} : calls[op] >= 1
  /\ PassReturned

\* C14: once CreateLogStore has succeeded and the index loop is over, the
\* logstore step has returned success, also when every CreateIndex attempt
\* failed, and the pass is at or past its first config call.
IndexLoopOver ==
  calls["CreateLogStore"] > fails["CreateLogStore"] /\ pc \notin {"CreateLogStore", "CreateIndex"}
C14_IndexNonFatal ==
  IndexLoopOver =>
    /\ ret["logstore"] = Nil
    /\ pc = "GetConfig" \/ calls["GetConfig"] >= 1
C14_Witness ==
  /\ IndexLoopOver /\ maxRetry = MaxRetryTimes
  /\ calls["CreateIndex"] = maxRetry /\ fails["CreateIndex"] = maxRetry
  /\ calls["GetConfig"] >= 1

\* goroutine t is between taking o.lock and releasing it, where the map is touched
InSection(t) == thr[t].pc \in {"access", "unlock"}
Writing(t) == InSection(t) /\ thr[t].fn \in WriteFns

\* C15: while one goroutine is inside a writing cache function's locked
\* section, no other goroutine is inside the locked section of any cache
\* function, reading or writing.
C15_LockSafety ==
  \A t1 \in Threads, t2 \in Threads :
    (t1 # t2 /\ Writing(t1)) => ~InSection(t2)
C15_Witness ==
  \E t1 \in Threads, t2 \in Threads :
    /\ t1 # t2 /\ Writing(t1) /\ thr[t1].fn = "addLogstoreCache"
    /\ thr[t2].pc = "lock" /\ thr[t2].fn = "logstoreCacheExists"

\* C16: when two goroutines have both issued CreateLogStore for the absent,
\* uncached logstore and both have returned, with no transient fault on the
\* way, both returned success.
Returned(t) == thr[t].res \notin {"none", "running"}
C16_DuplicateCreateTolerated ==
  (faults = 0 /\ \A t \in Threads : Returned(t) /\ thr[t].creates >= 1)
    => \A t \in Threads : thr[t].res = Nil

\* C17: GetConfig is never called again after it answered ConfigNotExist; the
\* fetch loop is left without a fetched config either on ConfigNotExist or
\* after maxRetry calls, and in both cases for the create branch; a config
\* step that fetched nothing has issued CreateConfig.
GetConfigCalled == calls'["GetConfig"] > calls["GetConfig"]
FetchLoopLeft == pc = "GetConfig" /\ pc' # "GetConfig" /\ calls["GetConfig"] >= 1
C17_FetchClassification ==
  /\ [][ /\ GetConfigCalled => (calls["GetConfig"] = 0 \/ err = "Transient")
         /\ (FetchLoopLeft /\ err # Nil) =>
              /\ pc' = "CreateConfig"
              /\ ret'["pass"] = "none"
              /\ err = "ConfigNotExist" \/ calls["GetConfig"] = maxRetry ]_vars
  /\ [](( /\ ret["config"] # "none" /\ fetched = NoConfig
          /\ calls["GetConfig"] >= 1 ) => calls["CreateConfig"] >= 1)
C17_Witness ==
  /\ maxRetry = MaxRetryTimes /\ rConfig # NoConfig
  /\ calls["GetConfig"] = maxRetry /\ fails["GetConfig"] = maxRetry
  /\ calls["CreateConfig"] >= 1 /\ err = "ConfigAlreadyExist"

\* the pass fetched a file config, as a map, one of whose four compared fields
\* differs from the desired spec's
FourFieldsDiffer ==
  /\ fetched # NoConfig /\ config.SimpleConfig
  /\ config.InputType = "file" /\ fetched.InputType = "file"
  /\ IsMap(fetched.InputDetail)
  /\ \/ \E k \in {"logPath", "filePattern"} :
          InterfaceToString(Get(config.InputDetail, k))
            # InterfaceToString(Get(fetched.InputDetail, k))
     \/ \E k \in {"dockerIncludeEnv", "dockerIncludeLabel"} :
          InterfaceToJSONString(Get(config.InputDetail, k))
            # InterfaceToJSONString(Get(fetched.InputDetail, k))

\* C18, as stated: whenever one of the four fields differs, for every desired
\* value, the config step has issued an UpdateConfig call.
C18_AnyDiffUpdates ==
  (FourFieldsDiffer /\ ret["config"] # "none") => calls["UpdateConfig"] >= 1

\* C18, amended: the same, when the desired path and pattern are non-empty.
C18_AnyDiffUpdatesWhenSet ==
  (FourFieldsDiffer /\ DesiredFileSet /\ ret["config"] # "none")
    => calls["UpdateConfig"] >= 1
C18_Witness ==
  /\ FourFieldsDiffer /\ DesiredFileSet /\ PassReturned
  /\ \A k \in {"logPath", "filePattern"} :
       InterfaceToString(Get(config.InputDetail, k))
         = InterfaceToString(Get(fetched.InputDetail, k))
  /\ calls["UpdateConfig"] = 1

\* C19: the step on which a pass returns nil records the config under
\* project@@configName with the current time and touches no other entry; the
\* step on which it returns an error, and every other step of a pass, leaves
\* the config cache as it is.
ConfigKey == Key(Project(config), ConfigName)
PassReturns == ret["pass"] = "none" /\ ret'["pass"] # "none"
C19_ConfigCacheRecording ==
  [][ /\ PassReturns =>
           IF ret'["pass"] = Nil
             THEN /\ ConfigKey \in DOMAIN configCacheMap'
                  /\ configCacheMap'[ConfigKey] = now
                  /\ \A k \in DOMAIN configCacheMap' \ {ConfigKey} :
                       k \in DOMAIN configCacheMap /\ configCacheMap'[k] = configCacheMap[k]
             ELSE configCacheMap' = configCacheMap
      /\ (pc \notin {"idle", "DeleteConfig"} /\ ~PassReturns)
           => configCacheMap' = configCacheMap ]_vars
C19_Witness ==
  /\ PassReturned /\ ret["pass"] = Nil /\ calls["UpdateConfig"] >= 1
  /\ now >= 1
  /\ ConfigKey \in DOMAIN configCacheMap /\ configCacheMap[ConfigKey] = now

\* C20: the logstore cache is written on the step on which CheckLogstoreExist's
\* answer confirms the logstore, CreateLogStore succeeds or the product creation
\* succeeds, each time as project@@logstore with the current time, and on no
\* other step; a logstore step that returned an error saw none of the three.
Succeeds(op) == calls'[op] > calls[op] /\ fails'[op] = fails[op]
ConfirmedNow == pc = "CheckLogstoreExist" /\ pc' # pc /\ ok
Recorded ==
  /\ TheKey \in DOMAIN logstoreCacheMap' /\ logstoreCacheMap'[TheKey] = now
  /\ \A k \in DOMAIN logstoreCacheMap' \ {TheKey} :
       k \in DOMAIN logstoreCacheMap /\ logstoreCacheMap'[k] = logstoreCacheMap[k]
C20_LogstoreCacheRecording ==
  /\ [][ IF ConfirmedNow \/ Succeeds("CreateLogStore") \/ Succeeds("CreateProductLogstore")
           THEN Recorded
           ELSE logstoreCacheMap' = logstoreCacheMap ]_vars
  /\ [](Failed("logstore") =>
          /\ calls["CreateLogStore"] = fails["CreateLogStore"]
          /\ calls["CreateProductLogstore"] = fails["CreateProductLogstore"])
C20_Witness ==
  /\ Failed("logstore") /\ calls["CreateLogStore"] >= 1
  /\ TheKey \in DOMAIN logstoreCacheMap
  /\ logstoreCacheMap[TheKey] < startedAt

\* ======================================================= the claims, C21..C28
\* C21: the group CreateMachineGroup creates and ApplyConfigToMachineGroup binds
\* is the first entry of machineGroups, or the default group when the list is
\* empty; a pass whose CreateConfig succeeded never calls
\* GetAppliedMachineGroups and, once returned, has called
\* ApplyConfigToMachineGroup.
TargetGroup ==
  IF Len(config.MachineGroups) > 0 THEN config.MachineGroups[1] ELSE "k8s-group"
CreatedInPass == calls["CreateConfig"] > fails["CreateConfig"]
OwnProject == config.Project \in {"", "k8s-log"}
GenericSpec == ~ProductSpec(config)
C22_ProjectStepConditional ==
  /\ []((OwnProject \/ ProductSpec(config)) => NoCalls(ProjectOps))
  /\ []((~OwnProject /\ GenericSpec /\ ~warm /\ maxRetry >= 1 /\ ret["logstore"] # "none")
          => calls["CheckProjectExist"] >= 1)
  /\ [][ calls'["CreateProject"] > calls["CreateProject"] =>
           /\ ~ok /\ ~OwnProject /\ GenericSpec /\ ~warm
           /\ calls["CheckProjectExist"] = maxRetry
                \/ calls["CheckProjectExist"] > fails["CheckProjectExist"] ]_vars
C22_Witness ==
  /\ config.Project = "other-proj" /\ GenericSpec /\ PassReturned
  /\ calls["CheckProjectExist"] = 1 /\ fails["CheckProjectExist"] = 0
  /\ calls["CreateProject"] = 0 /\ calls["CheckLogstoreExist"] >= 1
C22_OwnWitness ==
  /\ config.Project = "k8s-log" /\ PassReturned /\ calls["CreateLogStore"] >= 1

\* C23: CreateIndex is called only after a CreateLogStore of the same pass
\* succeeded: never on a cache hit, never after CheckLogstoreExist confirmed
\* the logstore, never on the product path, never after CreateLogStore failed.
LogstoreCreatedInPass == calls["CreateLogStore"] = fails["CreateLogStore"] + 1
C23_IndexOnlyAfterCreate ==
  /\ [][ calls'["CreateIndex"] > calls["CreateIndex"] =>
           /\ LogstoreCreatedInPass
           /\ ~warm /\ ~ok /\ GenericSpec ]_vars
  /\ [](calls["CreateIndex"] > 0 =>
          /\ LogstoreCreatedInPass
          /\ ~warm /\ GenericSpec /\ calls["CreateProductLogstore"] = 0)
C23_Witness ==
  /\ PassReturned /\ calls["CreateIndex"] >= 1
  /\ calls["CreateLogStore"] = 2 /\ fails["CreateLogStore"] = 1
  /\ calls["CheckLogstoreExist"] >= 1

\* C24: no operation removes a cache entry: the key sets of both caches only
\* grow and a key that stays keeps a timestamp that is not older.
KeepsKeys(m, n) ==
  \A k \in DOMAIN m : k \in DOMAIN n /\ n[k] >= m[k]
C24_NoEviction ==
  [][ /\ KeepsKeys(logstoreCacheMap, logstoreCacheMap')
      /\ KeepsKeys(configCacheMap, configCacheMap') ]_vars
\* C24, as the code has it: the logstore cache never loses a key; the config
\* cache loses a key only in deleteConfig, on the DeleteConfig call that
\* succeeded or answered that the config does not exist, and then the key of
\* the deleted config only; every key that stays keeps or renews its timestamp.
DeleteReturnsNil ==
  /\ calls'["DeleteConfig"] > calls["DeleteConfig"]
  /\ err' \in {Nil, "ConfigNotExist"} /\ ret'["delete"] = Nil
C24_NoEvictionButDelete ==
  [][ /\ KeepsKeys(logstoreCacheMap, logstoreCacheMap')
      /\ \A k \in DOMAIN configCacheMap :
           IF k \in DOMAIN configCacheMap'
             THEN configCacheMap'[k] >= configCacheMap[k]
             ELSE k = ConfigKey /\ DeleteReturnsNil
      /\ DeleteReturnsNil => ConfigKey \notin DOMAIN configCacheMap' ]_vars
C24_Witness ==
  /\ prev = Nil /\ ret["delete"] = Nil /\ pc = "idle"
  /\ ConfigKey \notin DOMAIN configCacheMap
  /\ TheKey \in DOMAIN logstoreCacheMap

\* C25: once a pass whose field-level UpdateConfig succeeded has returned, the
\* remote config shows no difference from the desired spec in the four
\* compared fields, so that the next pass of the same spec finds them equal and
\* issues no UpdateConfig; for every mix of present and absent filters.
PatchSucceeded ==
  /\ FourFieldsDiffer /\ DesiredFileSet
  /\ calls["UpdateConfig"] > fails["UpdateConfig"]
C25_PatchConverges ==
  (PatchSucceeded /\ PassReturned) => NoDrift(config, rConfig)

\* C26: a pass that found the config remotely for a spec not in simple mode
\* issues neither CreateConfig nor UpdateConfig and leaves the remote config as
\* it fetched it; its config step returns nil and the pass goes on to the
\* machine-group step.
FoundFull == fetched # NoConfig /\ ~config.SimpleConfig
C26_FullModeLeavesConfig ==
  /\ [](FoundFull =>
          /\ calls["CreateConfig"] = 0 /\ calls["UpdateConfig"] = 0
          /\ sent = NoConfig /\ rConfig = fetched
          /\ PassReturned => calls["CheckMachineGroupExist"] >= 1)
  /\ [][ (FoundFull /\ pc = "GetConfig" /\ pc' # pc) =>
            (pc' = "CheckMachineGroupExist" /\ ret'["config"] = Nil) ]_vars
C26_Witness ==
  /\ FoundFull /\ PassReturned /\ ret["pass"] = Nil
  /\ config.InputType = "plugin" /\ fetched.InputType = "file"
  /\ calls["CheckMachineGroupExist"] >= 1 /\ rConfig = fetched

\* C27: for every max-retry value, 0 included, a logstore step that returned
\* nil on a cache miss has had, in the same pass, a CheckLogstoreExist call that
\* reported the logstore, a CreateLogStore call that succeeded or a product
\* creation that succeeded.
ConfirmingOps == {"CheckLogstoreExist", "CreateLogStore", "CreateProductLogstore"}
RemotelyConfirmed ==
  /\ \E op \in ConfirmingOps : calls[op] > fails[op]
  /\ confirmedAt >= startedAt
C27_SuccessIsConfirmed ==
  (ret["logstore"] = Nil /\ ~warm) => RemotelyConfirmed

\* C28: every pass of updateConfigInner terminates when each remote call
\* returns: a started pass reaches a return, with nil or an error, and at any
\* moment it has made at most max-retry calls of each remote operation it
\* retries and at most one call of the product creation, which has no loop.
LoopOps == PassOps \ {"CreateProductLogstore"}
InPass == pc \notin {"idle", "DeleteConfig"}
C28_PassTerminates ==
  /\ [](\A op \in LoopOps : calls[op] <= maxRetry)
  /\ [](calls["CreateProductLogstore"] <= 1)
  /\ InPass ~> PassReturned
C28_Witness ==
  /\ PassReturned /\ maxRetry = MaxRetryTimes
  /\ calls["GetConfig"] = maxRetry /\ fails["GetConfig"] = maxRetry
  /\ calls["CheckLogstoreExist"] >= 1
====
